---- MODULE Spec2Model ----
(***************************************************************************)
(* MindWolf: the game phase state machine (GameEngine) driven by the       *)
(* orchestrator (GameManager).                                             *)
(*                                                                         *)
(* The variables are the fields of GameManager; `engine` holds the         *)
(* GameEngine (GameState plus players_map) or NoEngine.  Every action is   *)
(* one public method of GameManager, with every GameEngine call it makes.  *)
(* Vec indices are 1-based here (Rust: 0-based).                           *)
(***************************************************************************)
EXTENDS Integers, Sequences, FiniteSets, TLC

\* ------------------------------------------------------------------ bounds
\* The day counter is a u32 that grows by one per voting round: capped.
MaxDay == 3

\* How many of the players (in roster order) the votes given to player_vote name.
MaxTargets == 2

\* How many of the iterations of one shuffle draw j # i (swap two places); the
\* others draw j = i.
MaxSwaps == 1

\* How many Kill actions with a target a caller of the GameEngine itself passes
\* to execute_night_action.
MaxKills == 1

\* How many fallback_clients an LLMManager is given.
MaxFallbacks == 2

\* The counts of living players the win check is tabulated for.
MaxCount == 5

\* How many add_evidence calls (those of analyze_vote included) are made on one
\* ReasoningEngine.
MaxEvidence == 2

\* How many samples the data given to detect_silence holds at most.
MaxSamples == 4

\* The seconds the clock of the countdown runs for.
MaxNow == 5

\* How many update_timer calls are made on one countdown.
MaxPolls == 3

\* The greatest discussion_time and voting_time (seconds) a GameConfig holds.
MaxDuration == 3

\* How many update_strategy calls are made on one StrategyEngine.
MaxUpdates == 2

\* The day a game driven for the StrategyEngine is advanced to at most.
MaxLateDay == 4

\* How many votes are registered in one Voting round of a game that is played
\* to its end.
MaxRoundVotes == 1

\* How many calls of the AudioManager each task makes.
MaxRequests == 2

\* GameConfig.total_players values that create_game is given.
PlayerCounts == {3, 4}

\* ------------------------------------------------------------------- types
RoleTypes == {"Werewolf", "Villager", "Seer", "Witch", "Hunter", "Guard"}

NightActionTypes == {"Kill", "Check", "Heal", "Protect", "Poison"}

\* Option::None of GameManager.engine (the fields are there to be read, never used).
NoEngine ==
    [phase |-> "NoEngine", day |-> 0, players |-> <<>>, dead_players |-> <<>>,
     votes |-> <<>>, winner |-> "None", players_map |-> <<>>]

\* An id that names no player of any game (a vote or a reply may carry any string).
UnknownId == "nobody"

\* Option::None, for an Option<String> and an Option<Faction>.
None == "None"

HumanId == "human_player"

\* format!("ai_{}", i + 1): the ids of the agents (a u8 of roles gives 2 + 254 at most).
AiIds == [i \in 1..255 |-> "ai_" \o ToString(i)]

VARIABLES
    engine,         \* GameManager.engine: NoEngine or the GameEngine
    llm_manager,    \* GameManager.llm_manager is Some
    is_running,     \* GameManager.is_running
    \* History of the calls, read by the properties only:
    last_op,        \* the GameManager method called last on the game
    result,         \* "ok" | "err": what that call returned
    last_phase,     \* the phase that call found
    last_call,      \* [voter, target, replaced] of that call if it was a player_vote
                    \* whose vote was registered (replaced: the voter had a pending
                    \* vote), else NoCall
    elim_log,       \* the eliminate_player calls made by the last call that returned
                    \* ok, in order: [id, alive], alive the id's liveness before it
    last_tally,     \* how the last call that returned ok resolved a Voting round:
                    \* "none" (it resolved none), "no votes", "one top" (one target
                    \* had the most votes), "tie, first" / "tie, later" (several had,
                    \* and the one eliminated is / is not the first of them voted for)
    latest_vote,    \* voter -> target of the voter's latest registered vote since
                    \* the votes were last cleared (None: none)
    created,        \* the players initialize_game created for this engine
    \* History kept by the steps of EngineSpec (a caller of the GameEngine itself):
    driver,         \* [kills, voted] since initialize_game: kills the Kill actions
                    \* with a target passed to execute_night_action, in order, each
                    \* [target, alive, role, first_night] (what the target was when
                    \* it was passed, and whether the game was in the Night of day
                    \* 1); voted whether a vote was registered
    \* History kept by the steps of NightSpec:
    night_round,    \* the round of execute_night_actions the last call ran: one
                    \* [player, reply, action, applied] per agent in order, reply
                    \* "rule" (no service) | "no prompt" | "failed" | "not json" |
                    \* "json", action the Option<NightAction> executed, applied the
                    \* number of actions of the round executed before the agent's
                    \* action was generated; NoRound if it ran none
    \* One call of LLMManager::generate_with_fallback (LlmSpec):
    llm_call,       \* [status, fallbacks, place, attempt, log, reply]: status "idle"
                    \* | "running" | "ok" | "err" (what the call returned),
                    \* fallbacks the number of fallback_clients, place and attempt
                    \* the position of the loops (place 1 is the primary), log the
                    \* generate_single calls made, in order, each [endpoint,
                    \* attempt, ok, text, delay] (endpoint 0 the primary, k the k-th
                    \* fallback; text the reply or the error; delay the
                    \* milliseconds slept after it), reply the text returned
    \* One AIAgent (BeliefSpec, StrategySpec):
    agent,          \* NoAgent, or [player_id, nodes]: AIAgent.player_id and
                    \* ReasoningEngine.nodes, a function from the ids that have a
                    \* node to [faction_probability, trust_score, suspicion_score,
                    \* evidence]; a score is an integer number of 1/Scale, evidence
                    \* the Vec<Evidence>, each [evidence_type, confidence, weight]
    decision,       \* what the last call on the agent was and returned (read by
                    \* the properties only), NoDecision if the last step was none
    current_strategy, \* StrategyEngine.current_strategy: NoStrategy, or
                    \* [strategy_type, deception_level, calls]; deception_level in
                    \* tenths, calls the update_strategy calls made so far
    \* One GameEngine's countdown (TimerSpec):
    timer,          \* [now, timer, time_remaining, duration, started, polls,
                    \* expired]: now the seconds on the clock, timer the Instant
                    \* GameEngine.timer holds (None: none), time_remaining the
                    \* GameState field (None: none); duration and started what the
                    \* last start_phase_timer set, polls the update_timer calls
                    \* since, expired what the last update_timer returned
    \* One AudioManager (AudioSpec, SilenceSpec):
    audio,          \* [is_playing, lock, pc, calls, arrived_playing, outcome,
                    \* silence]: is_playing the flag, lock the task holding the
                    \* is_playing Mutex (None: free); per task, pc "idle" |
                    \* "locking" (awaits the Mutex) | "sleeping" (plays), calls
                    \* the calls it made, arrived_playing whether its last call
                    \* was made during a playback, outcome what that call did
                    \* ("none" yet | "played" | "skipped" | "true" | "false");
                    \* silence the detect_silence call [data, threshold,
                    \* min_duration, segments] (NoSilence: none)
    \* One round of execute_night_actions, agent by agent (ReplySpec):
    night_step      \* [agents, player, response, action]: agents the rest of the
                    \* snapshot ai_players the loop has still to come to; player,
                    \* response and action the agent of the last iteration, the
                    \* reply of the service to its prompt and the
                    \* Option<NightAction> that was executed (NoNightStep: none)

vars ==
    <<engine, llm_manager, is_running, last_op, result, last_phase, last_call,
      elim_log, last_tally, latest_vote, created, driver, night_round, llm_call,
      agent, decision, current_strategy, timer, audio, night_step>>

\* ----------------------------------------------------------------- helpers
RemoveAt(s, i) == SubSeq(s, 1, i - 1) \o SubSeq(s, i + 1, Len(s))

Ids(ps) == {ps[i].id : i \in DOMAIN ps}

\* ----------------------------------------------------------------- utils.rs
\* check_win_condition with > for >=: equal numbers do not win.
check_win_condition_strict(alive_werewolves, alive_villagers) ==
    IF alive_werewolves = 0 THEN "Villager"
    ELSE IF alive_werewolves > alive_villagers THEN "Werewolf"
    ELSE None

check_win_condition(alive_werewolves, alive_villagers) ==
    IF alive_werewolves = 0 THEN "Villager"
    ELSE IF alive_werewolves >= alive_villagers THEN "Werewolf"
    ELSE None

\* total_players is a u8: the default arm computes total_players - 2 in 8 bits.
generate_role_distribution(total_players) ==
    CASE total_players = 6 ->
           [r \in RoleTypes |-> CASE r = "Werewolf" -> 2 [] r = "Villager" -> 2
                                  [] r = "Seer" -> 1 [] r = "Witch" -> 1 [] OTHER -> 0]
      [] total_players = 8 ->
           [r \in RoleTypes |-> CASE r = "Werewolf" -> 3 [] r = "Villager" -> 3
                                  [] r = "Seer" -> 1 [] r = "Witch" -> 1 [] OTHER -> 0]
      [] total_players = 10 ->
           [r \in RoleTypes |-> CASE r = "Werewolf" -> 3 [] r = "Villager" -> 4
                                  [] r = "Seer" -> 1 [] r = "Witch" -> 1
                                  [] r = "Hunter" -> 1 [] OTHER -> 0]
      [] total_players = 12 ->
           [r \in RoleTypes |-> CASE r = "Werewolf" -> 4 [] r = "Villager" -> 4
                                  [] r = "Seer" -> 1 [] r = "Witch" -> 1
                                  [] r = "Hunter" -> 1 [] r = "Guard" -> 1]
      [] OTHER ->
           [r \in RoleTypes |-> CASE r = "Werewolf" -> 2
                                  [] r = "Villager" -> (total_players - 2) % 256
                                  [] OTHER -> 0]

\* vec.swap(i, j), places counted from 1.
Swap(vec, i, j) == [vec EXCEPT ![i] = vec[j], ![j] = vec[i]]

\* What the draws of one shuffle of `top` places can be, as the list of the swaps
\* <<i, j>> they make: i runs down from the last place, j is drawn at or below i,
\* and a draw j = i swaps nothing. At most k real swaps.
RECURSIVE SwapLists(_, _)
SwapLists(top, k) ==
    IF k = 0 \/ top < 2 THEN {<<>>}
    ELSE {<<>>} \cup
         UNION {{<<p>> \o rest : rest \in SwapLists(p[1] - 1, k - 1)}
                   : p \in {q \in (2..top) \X (1..top) : q[2] < q[1]}}

\* shuffle (Fisher-Yates) with the draws that make the swaps `swaps`.
RECURSIVE shuffle(_, _)
shuffle(vec, swaps) ==
    IF swaps = <<>> THEN vec
    ELSE shuffle(Swap(vec, swaps[1][1], swaps[1][2]), Tail(swaps))

\* ----------------------------------------------------------- game_engine.rs
create_role(role_type) ==
    [role_type |-> role_type,
     faction |-> IF role_type = "Werewolf" THEN "Werewolf" ELSE "Villager",
     has_night_action |-> role_type \in {"Werewolf", "Seer", "Witch", "Guard"}]

new ==
    [phase |-> "Preparation", day |-> 0, players |-> <<>>, dead_players |-> <<>>,
     votes |-> <<>>, winner |-> None, players_map |-> <<>>]

\* The decks `roles` can be after the shuffle: every order of the role multiset
\* (the HashMap is iterated in any order, the Fisher-Yates shuffle reaches every one).
ShuffledDecks(total_players) ==
    LET dist == generate_role_distribution(total_players)
        used == {r \in RoleTypes : dist[r] > 0}
        n == dist["Werewolf"] + dist["Villager"] + dist["Seer"] + dist["Witch"]
             + dist["Hunter"] + dist["Guard"]
    IN  {d \in [1..n -> used] :
            \A r \in used : Cardinality({i \in 1..n : d[i] = r}) = dist[r]}

\* The orders a HashMap with the keys S can be iterated in.
RECURSIVE Orders(_)
Orders(S) ==
    IF S = {} THEN {<<>>}
    ELSE UNION {{<<x>> \o o : o \in Orders(S \ {x})} : x \in S}

\* `roles` before the shuffle: dist[r] roles r for each r, in the order `order` of
\* the iteration over role_distribution.
RECURSIVE role_list(_, _)
role_list(dist, order) ==
    IF order = <<>> THEN <<>>
    ELSE (IF dist[order[1]] = 0 THEN <<>> ELSE [i \in 1..dist[order[1]] |-> order[1]])
            \o role_list(dist, Tail(order))

\* The orders role_distribution (the roles dealt at least once) can be iterated in.
DeckOrders(total_players) ==
    Orders({r \in RoleTypes : generate_role_distribution(total_players)[r] > 0})

\* The swaps the shuffle of `roles` can make, at most MaxSwaps of them.
DeckSwaps(total_players) ==
    LET dist == generate_role_distribution(total_players)
    IN  SwapLists(dist["Werewolf"] + dist["Villager"] + dist["Seer"] + dist["Witch"]
                     + dist["Hunter"] + dist["Guard"], MaxSwaps)

\* The swaps of a shuffle of `roles` whose first iteration draws any place and
\* whose later iterations draw j = i.
FirstDrawSwaps(total_players) ==
    LET dist == generate_role_distribution(total_players)
        n == dist["Werewolf"] + dist["Villager"] + dist["Seer"] + dist["Witch"]
             + dist["Hunter"] + dist["Guard"]
    IN  {<<>>} \cup {<<<<n, j>>>> : j \in 1..(n - 1)}

\* `roles` after the shuffle: the list built in the iteration order `order` of
\* role_distribution, shuffled with the swaps `swaps`.
BoundedDeck(total_players, order, swaps) ==
    shuffle(role_list(generate_role_distribution(total_players), order), swaps)

\* initialize_game with roles.last() for roles.pop(): the human's role stays in
\* the deck and is dealt to an agent as well.
initialize_game_no_pop(e, roles) ==
    LET n == Len(roles)
        mk(id, rt, ai) ==
            [id |-> id, role |-> create_role(rt), faction |-> create_role(rt).faction,
             is_alive |-> TRUE, is_ai |-> ai]
        players ==
            IF n = 0 THEN <<>>
            ELSE <<mk(HumanId, roles[n], FALSE)>>
                    \o [i \in 1..n |-> mk(AiIds[i], roles[i], TRUE)]
    IN  [e EXCEPT !.players = players,
                  !.players_map = [id \in Ids(players) |->
                                     CHOOSE i \in DOMAIN players : players[i].id = id]]

\* initialize_game with `roles` the shuffled deck: the human takes roles.pop(),
\* the agents ai_1.. take the rest in order.
initialize_game(e, roles) ==
    LET n == Len(roles)
        mk(id, rt, ai) ==
            [id |-> id, role |-> create_role(rt), faction |-> create_role(rt).faction,
             is_alive |-> TRUE, is_ai |-> ai]
        players ==
            IF n = 0 THEN <<>>
            ELSE <<mk(HumanId, roles[n], FALSE)>>
                    \o [i \in 1..(n - 1) |-> mk(AiIds[i], roles[i], TRUE)]
    IN  [e EXCEPT !.players = players,
                  !.players_map = [id \in Ids(players) |->
                                     CHOOSE i \in DOMAIN players : players[i].id = id]]

is_player_alive(e, player_id) ==
    \E i \in DOMAIN e.players : e.players[i].id = player_id /\ e.players[i].is_alive

start_game(e) ==
    IF e.players = <<>>
    THEN [eng |-> e, ok |-> FALSE]
    ELSE [eng |-> [e EXCEPT !.phase = "Night", !.day = 1], ok |-> TRUE]

\* eliminate_player without the loop of lines 245-249: the indices behind the
\* removed player are left as they were.
eliminate_player_stale_index(e, player_id) ==
    IF player_id \in DOMAIN e.players_map /\ e.players_map[player_id] <= Len(e.players)
    THEN LET index == e.players_map[player_id]
             player == [e.players[index] EXCEPT !.is_alive = FALSE]
         IN  [e EXCEPT
                !.players = RemoveAt(e.players, index),
                !.dead_players = Append(e.dead_players, player),
                !.players_map =
                    [id \in (DOMAIN e.players_map) \ {player_id} |-> e.players_map[id]]]
    ELSE e

\* eliminate_player that pushes the clone and leaves the roster as it is.
eliminate_player_clone(e, player_id) ==
    IF player_id \in DOMAIN e.players_map /\ e.players_map[player_id] <= Len(e.players)
    THEN LET index == e.players_map[player_id]
             player == [e.players[index] EXCEPT !.is_alive = FALSE]
         IN  [e EXCEPT !.dead_players = Append(e.dead_players, player)]
    ELSE e

\* eliminate_player without the push of line 241.
eliminate_player_no_push(e, player_id) ==
    IF player_id \in DOMAIN e.players_map /\ e.players_map[player_id] <= Len(e.players)
    THEN LET index == e.players_map[player_id]
         IN  [e EXCEPT
                !.players = RemoveAt(e.players, index),
                !.players_map =
                    [id \in (DOMAIN e.players_map) \ {player_id} |->
                        IF e.players_map[id] > index
                        THEN e.players_map[id] - 1 ELSE e.players_map[id]]]
    ELSE e

eliminate_player(e, player_id) ==
    IF player_id \in DOMAIN e.players_map /\ e.players_map[player_id] <= Len(e.players)
    THEN LET index == e.players_map[player_id]
             player == [e.players[index] EXCEPT !.is_alive = FALSE]
         IN  [e EXCEPT
                !.players = RemoveAt(e.players, index),
                !.dead_players = Append(e.dead_players, player),
                !.players_map =
                    [id \in (DOMAIN e.players_map) \ {player_id} |->
                        IF e.players_map[id] > index
                        THEN e.players_map[id] - 1 ELSE e.players_map[id]]]
    ELSE e

\* vote_counts of process_votes: target -> number of pending votes naming it.
vote_counts(votes) ==
    [t \in {votes[i].target : i \in DOMAIN votes} |->
        Cardinality({i \in DOMAIN votes : votes[i].target = t})]

\* max_by_key with the comparison turned round: a target with the fewest votes.
min_by_key(counts) ==
    IF DOMAIN counts = {} THEN {None}
    ELSE {t \in DOMAIN counts : \A u \in DOMAIN counts : counts[t] <= counts[u]}

\* What vote_counts.iter().max_by_key(count) can return: the HashMap is iterated in
\* an order that differs from map to map, and max_by_key keeps the last maximum
\* of that order, so any target with the highest count can come out; None when
\* the map is empty.
max_by_key(counts) ==
    IF DOMAIN counts = {} THEN {None}
    ELSE {t \in DOMAIN counts : \A u \in DOMAIN counts : counts[u] <= counts[t]}

\* process_votes with `eliminated_player_id` the entry max_by_key returned.
\* (process_votes that leaves the votes pending)
process_votes_keeps_votes(e, eliminated_player_id) ==
    IF eliminated_player_id = None THEN e
    ELSE eliminate_player(e, eliminated_player_id)

process_votes(e, eliminated_player_id) ==
    LET e1 == IF eliminated_player_id = None THEN e
              ELSE eliminate_player(e, eliminated_player_id)
    IN  [e1 EXCEPT !.votes = <<>>]

\* (check_game_end that finds no winner)
check_game_end_no_winner(e) == [eng |-> e, ended |-> FALSE]

check_game_end(e) ==
    LET alive_werewolves ==
            Cardinality({i \in DOMAIN e.players :
                e.players[i].is_alive /\ e.players[i].role.faction = "Werewolf"})
        alive_villagers ==
            Cardinality({i \in DOMAIN e.players :
                e.players[i].is_alive /\ e.players[i].role.faction = "Villager"})
        winner == check_win_condition(alive_werewolves, alive_villagers)
    IN  IF winner # None
        THEN [eng |-> [e EXCEPT !.winner = winner, !.phase = "GameOver"], ended |-> TRUE]
        ELSE [eng |-> e, ended |-> FALSE]

\* next_phase with the stage LastWords of the phase enum entered after a round
\* that ends nothing.
next_phase_last_words(e) ==
    CASE e.phase = "Preparation" ->
           {[eng |-> start_game(e).eng, ok |-> start_game(e).ok, log |-> <<>>,
             resolved |-> FALSE, tallied |-> <<>>]}
      [] e.phase = "Night" ->
           {[eng |-> [e EXCEPT !.phase = "DayDiscussion"], ok |-> TRUE, log |-> <<>>,
             resolved |-> FALSE, tallied |-> <<>>]}
      [] e.phase = "DayDiscussion" ->
           {[eng |-> [e EXCEPT !.phase = "Voting"], ok |-> TRUE, log |-> <<>>,
             resolved |-> FALSE, tallied |-> <<>>]}
      [] e.phase = "Voting" ->
           {LET e1 == process_votes(e, id)
                end == check_game_end(e1)
            IN  [eng |-> IF end.ended
                         THEN [end.eng EXCEPT !.phase = "GameOver"]
                         ELSE [e1 EXCEPT !.phase = "LastWords"],
                 ok |-> TRUE,
                 log |-> IF id = None THEN <<>>
                         ELSE <<[id |-> id, alive |-> is_player_alive(e, id)]>>,
                 resolved |-> TRUE, tallied |-> e.votes]
            : id \in max_by_key(vote_counts(e.votes))}
      [] e.phase = "LastWords" ->
           {[eng |-> [e EXCEPT !.phase = "Night", !.day = e.day + 1],
             ok |-> TRUE, log |-> <<>>, resolved |-> FALSE, tallied |-> <<>>]}
      [] e.phase = "GameOver" ->
           {[eng |-> e, ok |-> TRUE, log |-> <<>>, resolved |-> FALSE, tallied |-> <<>>]}

\* The outcomes of next_phase: [eng, ok, log, resolved, tallied], log the
\* eliminate_player calls made, resolved whether process_votes ran, tallied the
\* votes it counted.
next_phase(e) ==
    CASE e.phase = "Preparation" ->
           {[eng |-> start_game(e).eng, ok |-> start_game(e).ok, log |-> <<>>,
             resolved |-> FALSE, tallied |-> <<>>]}
      [] e.phase = "Night" ->
           {[eng |-> [e EXCEPT !.phase = "DayDiscussion"], ok |-> TRUE, log |-> <<>>,
             resolved |-> FALSE, tallied |-> <<>>]}
      [] e.phase = "DayDiscussion" ->
           {[eng |-> [e EXCEPT !.phase = "Voting"], ok |-> TRUE, log |-> <<>>,
             resolved |-> FALSE, tallied |-> <<>>]}
      [] e.phase = "Voting" ->
           LET picks == max_by_key(vote_counts(e.votes))
           IN  {LET e1 == process_votes(e, id)
                    end == check_game_end(e1)
                IN  [eng |-> IF end.ended
                             THEN [end.eng EXCEPT !.phase = "GameOver"]
                             ELSE [e1 EXCEPT !.phase = "Night", !.day = e1.day + 1],
                     ok |-> TRUE,
                     log |-> IF id = None THEN <<>>
                             ELSE <<[id |-> id, alive |-> is_player_alive(e, id)]>>,
                     resolved |-> TRUE, tallied |-> e.votes]
                : id \in picks}
      [] e.phase = "LastWords" ->
           {[eng |-> [e EXCEPT !.phase = "Night", !.day = e.day + 1],
             ok |-> TRUE, log |-> <<>>, resolved |-> FALSE, tallied |-> <<>>]}
      [] e.phase = "GameOver" ->
           {[eng |-> e, ok |-> TRUE, log |-> <<>>, resolved |-> FALSE, tallied |-> <<>>]}

\* vote without the check of the phase (lines 287-289).
vote_any_phase(e, voter_id, target_id) ==
    IF ~is_player_alive(e, voter_id) THEN [eng |-> e, ok |-> FALSE]
    ELSE IF ~is_player_alive(e, target_id) THEN [eng |-> e, ok |-> FALSE]
    ELSE LET kept == SelectSeq(e.votes, LAMBDA v : v.voter # voter_id)
         IN  [eng |-> [e EXCEPT !.votes =
                          Append(kept, [voter |-> voter_id, target |-> target_id])],
              ok |-> TRUE]

\* vote without the retain of line 302: an earlier vote of the voter stays.
vote_keeps_earlier(e, voter_id, target_id) ==
    IF e.phase # "Voting" THEN [eng |-> e, ok |-> FALSE]
    ELSE IF ~is_player_alive(e, voter_id) THEN [eng |-> e, ok |-> FALSE]
    ELSE IF ~is_player_alive(e, target_id) THEN [eng |-> e, ok |-> FALSE]
    ELSE [eng |-> [e EXCEPT !.votes =
                      Append(e.votes, [voter |-> voter_id, target |-> target_id])],
          ok |-> TRUE]

\* vote without the check of the target (lines 297-299).
vote_any_target(e, voter_id, target_id) ==
    IF e.phase # "Voting" THEN [eng |-> e, ok |-> FALSE]
    ELSE IF ~is_player_alive(e, voter_id) THEN [eng |-> e, ok |-> FALSE]
    ELSE LET kept == SelectSeq(e.votes, LAMBDA v : v.voter # voter_id)
         IN  [eng |-> [e EXCEPT !.votes =
                          Append(kept, [voter |-> voter_id, target |-> target_id])],
              ok |-> TRUE]

vote(e, voter_id, target_id) ==
    IF e.phase # "Voting" THEN [eng |-> e, ok |-> FALSE]
    ELSE IF ~is_player_alive(e, voter_id) THEN [eng |-> e, ok |-> FALSE]
    ELSE IF ~is_player_alive(e, target_id) THEN [eng |-> e, ok |-> FALSE]
    ELSE LET kept == SelectSeq(e.votes, LAMBDA v : v.voter # voter_id)
         IN  [eng |-> [e EXCEPT !.votes =
                          Append(kept, [voter |-> voter_id, target |-> target_id])],
              ok |-> TRUE]

\* execute_night_action whose Kill arm only logs, as its other arms do.
execute_night_action_todo(e, action) == e

\* A NightAction is [action, target], target an id or None.
execute_night_action(e, action) ==
    IF action.action = "Kill" /\ action.target # None
    THEN eliminate_player(e, action.target)
    ELSE e

\* GameEngine::start_phase_timer in phase `phase`, on the countdown t: t.timer
\* is GameEngine.timer and t.time_remaining GameState.time_remaining, an Option
\* as a sequence of at most one value; t.now is Instant::now() in seconds.
phase_duration(t, phase) ==
    CASE phase = "DayDiscussion" -> t.config.discussion_time
      [] phase = "Voting" -> t.config.voting_time
      [] OTHER -> 0

start_phase_timer(t, phase) ==
    LET duration == phase_duration(t, phase)
    IN  IF duration > 0
        THEN [t EXCEPT !.time_remaining = <<duration>>, !.timer = <<t.now>>]
        ELSE t

\* GameEngine::update_timer: [t, expired], expired the bool returned.
update_timer(t) ==
    IF t.timer # <<>> /\ t.time_remaining # <<>>
    THEN LET elapsed == t.now - t.timer[1]
             time_remaining == t.time_remaining[1]
         IN  IF elapsed >= time_remaining
             THEN [t |-> [t EXCEPT !.time_remaining = <<>>, !.timer = <<>>],
                   expired |-> TRUE]
             ELSE [t |-> [t EXCEPT !.time_remaining = <<time_remaining - elapsed>>],
                   expired |-> FALSE]
    ELSE [t |-> t, expired |-> FALSE]

\* ---------------------------------------------------------- game_manager.rs
\* all_players_voted that counts every player of the game, the dead too.
all_players_voted_of_all(e) ==
    Len(e.votes) >= Len(e.players) + Len(e.dead_players)

all_players_voted(e) ==
    LET alive_players == Cardinality({i \in DOMAIN e.players : e.players[i].is_alive})
    IN  Len(e.votes) >= alive_players

\* What the text-generation service can make of one night-action prompt: the call
\* fails on every endpoint, or it replies; a reply is text that is no JSON object
\* with an "action" string, or such an object, its "target" a string or absent.
ReplyActions == {"kill", "check", "heal", "protect", "poison", "sleep"}

Responses(e) ==
    {[status |-> "failed"], [status |-> "not json"]}
        \cup [status : {"json"}, action : ReplyActions,
              target : Ids(e.players) \cup Ids(e.dead_players) \cup {UnknownId, None}]

\* Option<NightAction>: [action, target], target an id or None; NoAction is None.
NoAction == [action |-> None, target |-> None]

\* (parse_night_action_response that takes no kill from a reply)
parse_night_action_response_no_kill(response) ==
    IF response.status # "json" THEN NoAction
    ELSE CASE response.action = "check" -> [action |-> "Check", target |-> response.target]
           [] response.action = "heal" -> [action |-> "Heal", target |-> response.target]
           [] response.action = "protect" ->
                [action |-> "Protect", target |-> response.target]
           [] response.action = "poison" ->
                [action |-> "Poison", target |-> response.target]
           [] OTHER -> NoAction

parse_night_action_response(response) ==
    IF response.status # "json" THEN NoAction
    ELSE CASE response.action = "kill" -> [action |-> "Kill", target |-> response.target]
           [] response.action = "check" -> [action |-> "Check", target |-> response.target]
           [] response.action = "heal" -> [action |-> "Heal", target |-> response.target]
           [] response.action = "protect" ->
                [action |-> "Protect", target |-> response.target]
           [] response.action = "poison" ->
                [action |-> "Poison", target |-> response.target]
           [] OTHER -> NoAction

\* generate_simple_night_action that draws its target among the players of the
\* game, the eliminated ones too.
generate_simple_night_action_stale(e, player) ==
    LET all == e.players \o e.dead_players
        others == {i \in DOMAIN all : all[i].id # player.id}
    IN  IF others = {} THEN {NoAction}
        ELSE CASE player.role.role_type = "Werewolf" ->
                    {[action |-> "Kill", target |-> all[i].id] : i \in others}
               [] player.role.role_type = "Seer" ->
                    {[action |-> "Check", target |-> all[i].id] : i \in others}
               [] player.role.role_type = "Guard" ->
                    {[action |-> "Protect", target |-> all[i].id] : i \in others}
               [] OTHER -> {NoAction}

\* The Option<NightAction>s the rule-based choice can return for `player`: the
\* target is drawn at random among the living players other than `player`.
generate_simple_night_action(e, player) ==
    LET alive_players ==
            {i \in DOMAIN e.players : e.players[i].is_alive /\ e.players[i].id # player.id}
    IN  IF alive_players = {} THEN {NoAction}
        ELSE CASE player.role.role_type = "Werewolf" ->
                    {[action |-> "Kill", target |-> e.players[i].id] : i \in alive_players}
               [] player.role.role_type = "Seer" ->
                    {[action |-> "Check", target |-> e.players[i].id] : i \in alive_players}
               [] player.role.role_type = "Guard" ->
                    {[action |-> "Protect", target |-> e.players[i].id] : i \in alive_players}
               [] OTHER -> {NoAction}

\* build_night_action_prompt returns Ok (the engine is there whenever it is called).
build_night_action_prompt(player) ==
    player.role.role_type \in {"Werewolf", "Seer", "Witch", "Guard"}

\* generate_ai_night_action that hands the failure of the service on to its
\* caller (generate_with_fallback(prompt).await?).
generate_ai_night_action_strict(e, player, llm) ==
    IF llm
    THEN IF ~build_night_action_prompt(player)
         THEN {[reply |-> "no prompt", action |-> NoAction, ok |-> FALSE]}
         ELSE {[reply |-> response.status,
                action |-> IF response.status = "failed" THEN NoAction
                           ELSE parse_night_action_response(response),
                ok |-> response.status # "failed"]
                 : response \in Responses(e)}
    ELSE {[reply |-> "rule", action |-> action, ok |-> TRUE]
            : action \in generate_simple_night_action(e, player)}

\* What generate_ai_night_action can return for `player`: [reply, action, ok],
\* reply what the service made of the prompt ("rule": there is no service; "no
\* prompt": no prompt was built), ok whether it returned Ok, action the
\* Option<NightAction> returned.
generate_ai_night_action(e, player, llm) ==
    IF llm
    THEN IF ~build_night_action_prompt(player)
         THEN {[reply |-> "no prompt", action |-> NoAction, ok |-> FALSE]}
         ELSE {[reply |-> response.status,
                action |-> IF response.status = "failed" THEN NoAction
                           ELSE parse_night_action_response(response),
                ok |-> TRUE]
                 : response \in Responses(e)}
    ELSE {[reply |-> "rule", action |-> action, ok |-> TRUE]
            : action \in generate_simple_night_action(e, player)}

\* The loop of execute_night_actions from agent k of the snapshot ai_players on:
\* each action is generated against, and applied to, the state the earlier ones
\* left, and an Err ends the loop.  The outcomes are the engines with the log of
\* eliminate_player calls, whether the loop returned Ok and, if rec, the round:
\* one [player, reply, action, applied] per agent the loop came to, applied the
\* number of engine.execute_night_action calls the loop had made when it called
\* generate_ai_night_action for the agent.
RECURSIVE night_loop(_, _, _, _, _, _, _)
night_loop(e, ai_players, k, llm, log, round, rec) ==
    IF k > Len(ai_players)
    THEN {[eng |-> e, ok |-> TRUE, log |-> log, round |-> round]}
    ELSE UNION {
            LET action == g.action
                applied == Cardinality({i \in DOMAIN round : round[i].action # NoAction})
                round1 == IF rec
                          THEN Append(round, [player |-> ai_players[k].id,
                                              reply |-> g.reply, action |-> action,
                                              applied |-> applied])
                          ELSE round
            IN  IF ~g.ok
                THEN {[eng |-> e, ok |-> FALSE, log |-> log, round |-> round1]}
                ELSE IF action = NoAction
                THEN night_loop(e, ai_players, k + 1, llm, log, round1, rec)
                ELSE night_loop(execute_night_action(e, action), ai_players, k + 1, llm,
                                IF action.action = "Kill" /\ action.target # None
                                THEN Append(log, [id |-> action.target,
                                                  alive |-> is_player_alive(e, action.target)])
                                ELSE log,
                                round1, rec)
            : g \in generate_ai_night_action(e, ai_players[k], llm)}

\* (execute_night_actions that lets only the first agent of the snapshot act)
execute_night_actions_first_agent(e, llm, log, rec) ==
    LET ai_players ==
            SelectSeq(e.players,
                      LAMBDA p : p.is_alive /\ p.is_ai /\ p.role.has_night_action)
    IN  night_loop(e, SubSeq(ai_players, 1, 1), 1, llm, log, <<>>, rec)

execute_night_actions(e, llm, log, rec) ==
    LET ai_players ==
            SelectSeq(e.players,
                      LAMBDA p : p.is_alive /\ p.is_ai /\ p.role.has_night_action)
    IN  night_loop(e, ai_players, 1, llm, log, <<>>, rec)

\* The call ran no round of night actions.
NoRound ==
    <<[player |-> None, reply |-> "no round", action |-> NoAction, applied |-> 0]>>

\* The outcomes [eng, ok, log, resolved, tallied, round] of
\* proceed_to_next_phase on e; round is the round it ran if rec (<<>> if not
\* rec), NoRound if it ran none.
proceed_to_next_phase(e, llm, rec) ==
    UNION {
        IF r.ok /\ r.eng.phase = "Night"
        THEN {[eng |-> n.eng, ok |-> n.ok, log |-> n.log, resolved |-> r.resolved,
               tallied |-> r.tallied, round |-> n.round]
                : n \in execute_night_actions(r.eng, llm, r.log, rec)}
        ELSE {[eng |-> r.eng, ok |-> r.ok, log |-> r.log, resolved |-> r.resolved,
               tallied |-> r.tallied, round |-> NoRound]}
        : r \in next_phase(e)}

NoCall == [voter |-> None, target |-> None, replaced |-> FALSE]

\* The outcomes [eng, ok, log, resolved, tallied, call] of player_vote on e.
player_vote(e, llm, voter_id, target_id) ==
    LET v == vote(e, voter_id, target_id)
        call == [voter |-> voter_id, target |-> target_id,
                 replaced |-> \E i \in DOMAIN e.votes : e.votes[i].voter = voter_id]
    IN  IF ~v.ok
        THEN {[eng |-> v.eng, ok |-> FALSE, log |-> <<>>, resolved |-> FALSE,
               tallied |-> <<>>, call |-> NoCall]}
        ELSE IF all_players_voted(v.eng)
        THEN {[eng |-> r.eng, ok |-> r.ok, log |-> r.log, resolved |-> r.resolved,
               tallied |-> r.tallied, call |-> call]
                : r \in proceed_to_next_phase(v.eng, llm, FALSE)}
        ELSE {[eng |-> v.eng, ok |-> TRUE, log |-> <<>>, resolved |-> FALSE,
               tallied |-> <<>>, call |-> call]}

\* ------------------------------------------------------------------ llm.rs
\* RetryConfig::default()
max_attempts == 3

base_delay_ms == 1000

max_delay_ms == 30000

\* What generate_single can return: Ok(text) or Err(error).
LlmTexts == {"text a", "text b"}

LlmErrors == {"network error", "api error"}

LlmOutcomes ==
    [ok : {TRUE}, text : LlmTexts] \cup [ok : {FALSE}, text : LlmErrors]

\* The clients in reverse order.
endpoints_rev(fallbacks) == [i \in 1..(fallbacks + 1) |-> fallbacks + 1 - i]

\* The clients in the order generate_with_fallback goes through them: the
\* primary_client (0), then fallback_clients.iter() (1, 2, ...).
endpoints(fallbacks) == [i \in 1..(fallbacks + 1) |-> i - 1]

\* The delay try_generate_with_retry sleeps after the failed attempt `attempt`.
backoff(attempt) ==
    LET delay == base_delay_ms * 2 ^ (attempt - 1)
    IN  IF delay < max_delay_ms THEN delay ELSE max_delay_ms

\* No call of generate_with_fallback.
NoLlmCall ==
    [status |-> "idle", fallbacks |-> 0, place |-> 1, attempt |-> 1, log |-> <<>>,
     reply |-> None]

\* (generate_with_fallback whose retry loop runs one attempt more)
generate_with_fallback_extra_attempt(c, out) ==
    LET entry(delay) ==
            [endpoint |-> endpoints(c.fallbacks)[c.place], attempt |-> c.attempt,
             ok |-> out.ok, text |-> out.text, delay |-> delay]
    IN  IF out.ok
        THEN [c EXCEPT !.status = "ok", !.reply = out.text,
                       !.log = Append(c.log, entry(0))]
        ELSE IF c.attempt <= max_attempts
        THEN [c EXCEPT !.attempt = c.attempt + 1,
                       !.log = Append(c.log, entry(backoff(c.attempt)))]
        ELSE IF c.place < c.fallbacks + 1
        THEN [c EXCEPT !.place = c.place + 1, !.attempt = 1,
                       !.log = Append(c.log, entry(0))]
        ELSE [c EXCEPT !.status = "err", !.reply = "all failed",
                       !.log = Append(c.log, entry(0))]

\* The call c after its generate_single returned `out`: Ok ends the call with
\* the text; Err with attempts left sleeps and tries the client again; Err on
\* the last attempt goes on to the next client, or ends the call with the error
\* "all failed" after the last one.
generate_with_fallback(c, out) ==
    LET entry(delay) ==
            [endpoint |-> endpoints(c.fallbacks)[c.place], attempt |-> c.attempt,
             ok |-> out.ok, text |-> out.text, delay |-> delay]
    IN  IF out.ok
        THEN [c EXCEPT !.status = "ok", !.reply = out.text,
                       !.log = Append(c.log, entry(0))]
        ELSE IF c.attempt < max_attempts
        THEN [c EXCEPT !.attempt = c.attempt + 1,
                       !.log = Append(c.log, entry(backoff(c.attempt)))]
        ELSE IF c.place < c.fallbacks + 1
        THEN [c EXCEPT !.place = c.place + 1, !.attempt = 1,
                       !.log = Append(c.log, entry(0))]
        ELSE [c EXCEPT !.status = "err", !.reply = "all failed",
                       !.log = Append(c.log, entry(0))]

\* ------------------------------------------------------------ reasoning.rs
\* The f32 scores are fixed-point here: a score is an integer number of 1/Scale
\* (1.0 is Scale), an Evidence.weight and an Evidence.confidence an integer number
\* of tenths.  The weights and scores below are exact in this unit.
Scale == 3000

EvidenceTypes ==
    {"VotingPattern", "SpeechAnalysis", "NightResult", "RoleClaimConsistency",
     "DefensiveBehavior", "AggressiveBehavior", "LogicalInconsistency",
     "TeamworkIndicator"}

\* weight * (hundredths / 100), in 1/Scale.
Times(weight, hundredths) == (weight * hundredths * Scale) \div 1000

\* f32::clamp(0.0, 1.0)
clamp(x) == IF x < 0 THEN 0 ELSE IF x > Scale THEN Scale ELSE x

\* ReasoningEngine::initialize: one node per player of game_state.players, its
\* faction_probability the configured number of werewolves over players.len().
initialize(e, werewolves) ==
    [id \in Ids(e.players) |->
        [faction_probability |-> (werewolves * Scale) \div Len(e.players),
         trust_score |-> Scale \div 2,
         suspicion_score |-> Scale \div 2,
         evidence |-> <<>>]]

\* The match of update_probabilities on the evidence type.
Updated(node, evidence) ==
    CASE evidence.evidence_type = "SpeechAnalysis" ->
            IF evidence.confidence > 7
            THEN [node EXCEPT
                    !.suspicion_score = @ + Times(evidence.weight, 20),
                    !.trust_score = @ - Times(evidence.weight, 10)]
            ELSE node
      [] evidence.evidence_type = "VotingPattern" ->
            [node EXCEPT !.faction_probability = @ + Times(evidence.weight, 15)]
      [] evidence.evidence_type = "DefensiveBehavior" ->
            [node EXCEPT !.suspicion_score = @ + Times(evidence.weight, 25)]
      [] evidence.evidence_type = "LogicalInconsistency" ->
            [node EXCEPT
                !.faction_probability = @ + Times(evidence.weight, 30),
                !.suspicion_score = @ + Times(evidence.weight, 40)]
      [] OTHER ->
            [node EXCEPT !.suspicion_score = @ + Times(evidence.weight, 10)]

\* update_probabilities without the three clamps of lines 165-167.
update_probabilities_unclamped(nodes, player_id, evidence) ==
    IF player_id \notin DOMAIN nodes THEN nodes
    ELSE [nodes EXCEPT ![player_id] = Updated(@, evidence)]

update_probabilities(nodes, player_id, evidence) ==
    IF player_id \notin DOMAIN nodes THEN nodes
    ELSE LET node == Updated(nodes[player_id], evidence)
         IN  [nodes EXCEPT ![player_id] =
                [node EXCEPT
                    !.suspicion_score = clamp(@),
                    !.trust_score = clamp(@),
                    !.faction_probability = clamp(@)]]

\* add_evidence that divides the scores of the other nodes by two, as a
\* renormalization across the players would.
add_evidence_renormalized(nodes, player_id, evidence) ==
    IF player_id \notin DOMAIN nodes THEN nodes
    ELSE LET pushed == [nodes EXCEPT ![player_id].evidence = Append(@, evidence)]
             updated == update_probabilities(pushed, player_id, evidence)
         IN  [id \in DOMAIN nodes |->
                IF id = player_id THEN updated[id]
                ELSE [updated[id] EXCEPT !.suspicion_score = @ \div 2,
                                         !.faction_probability = @ \div 2]]

\* add_evidence returns Ok(()) whether or not player_id has a node.
add_evidence(nodes, player_id, evidence) ==
    IF player_id \notin DOMAIN nodes THEN nodes
    ELSE update_probabilities(
            [nodes EXCEPT ![player_id].evidence = Append(@, evidence)],
            player_id, evidence)

\* create_default_rules: one rule, [condition, conclusion, confidence].
reasoning_rules ==
    <<[condition |-> "SpeechContainsKeywords",
       conclusion |-> [kind |-> "IncreaseSuspicion", player |-> "self", amount |-> 2],
       confidence |-> 8]>>

\* evaluate_rule_condition on the conditions the rules hold: the arms that read
\* the state are for PlayerVotedFor and ConsistentRoleClaim, every other
\* condition is false (line 307).
evaluate_rule_condition(condition) ==
    CASE condition = "SpeechContainsKeywords" -> FALSE

\* apply_rule_conclusion, amount and confidence in tenths.
apply_rule_conclusion(nodes, conclusion, confidence) ==
    IF conclusion.kind = "IncreaseSuspicion" /\ conclusion.player \in DOMAIN nodes
    THEN [nodes EXCEPT ![conclusion.player].suspicion_score =
            clamp(@ + (conclusion.amount * confidence * Scale) \div 100)]
    ELSE nodes

RECURSIVE apply_reasoning_rules(_, _)
apply_reasoning_rules(nodes, rules) ==
    IF rules = <<>> THEN nodes
    ELSE apply_reasoning_rules(
            IF evaluate_rule_condition(rules[1].condition)
            THEN apply_rule_conclusion(nodes, rules[1].conclusion, rules[1].confidence)
            ELSE nodes,
            Tail(rules))

\* The Evidence analyze_vote makes: confidence 0.8, weight 0.3.
VoteEvidence == [evidence_type |-> "VotingPattern", confidence |-> 8, weight |-> 3]

analyze_vote(nodes, voter_id, target_id) ==
    apply_reasoning_rules(add_evidence(nodes, voter_id, VoteEvidence), reasoning_rules)

\* The id max_by leaves when the nodes are iterated in `order`: the last of the
\* ids whose score is the greatest (None: there is no node).
MaxBy(nodes, order, field) ==
    IF order = <<>> THEN None
    ELSE LET best == CHOOSE i \in DOMAIN order :
                        /\ \A j \in DOMAIN order :
                              nodes[order[j]][field] <= nodes[order[i]][field]
                        /\ \A j \in (i + 1)..Len(order) :
                              nodes[order[j]][field] < nodes[order[i]][field]
         IN  order[best]

get_most_suspicious_player(nodes, order) == MaxBy(nodes, order, "suspicion_score")

get_most_trusted_player(nodes, order) == MaxBy(nodes, order, "trust_score")

get_werewolf_probability(nodes, player_id) ==
    IF player_id \in DOMAIN nodes THEN nodes[player_id].faction_probability
    ELSE Scale \div 2

\* ------------------------------------------------------------- strategy.rs
StrategyTypes == {"Aggressive", "Defensive", "Neutral", "Deceptive", "Logical", "Chaotic"}

VotingStrategies == {"FollowMajority", "Independent", "Protective", "Aggressive", "Random"}

\* The literal the filters of the decisions compare a player's id with, and the
\* NightAction.player of every action decided.
SelfId == "self"

\* The ids select_random_target can return for the players `players` (None: the
\* slice is empty).
select_random_target(players) == IF players = <<>> THEN {None} ELSE Ids(players)

\* select_medium_suspicion_target: a random one of the players whose werewolf
\* probability is within [0.3, 0.7], of all of them if there is none.
select_medium_suspicion_target(players, nodes) ==
    LET candidates ==
            SelectSeq(players,
                      LAMBDA p : /\ 10 * get_werewolf_probability(nodes, p.id) >= 3 * Scale
                                 /\ 10 * get_werewolf_probability(nodes, p.id) <= 7 * Scale)
    IN  IF candidates # <<>> THEN select_random_target(candidates)
        ELSE select_random_target(players)

\* calculate_threat_level, in tenths.
calculate_threat_level(player) ==
    CASE player.role.role_type = "Seer" -> 9
      [] player.role.role_type = "Witch" -> 8
      [] player.role.role_type = "Hunter" -> 7
      [] player.role.role_type = "Guard" -> 6
      [] player.role.role_type = "Villager" -> 3
      [] player.role.role_type = "Werewolf" -> 0

\* select_strategic_target: the first of the players with the greatest score
\* (1 - werewolf probability) * threat if that score is above 0, else a random
\* one.
select_strategic_target(players, nodes) ==
    LET score(i) == (Scale - get_werewolf_probability(nodes, players[i].id))
                        * calculate_threat_level(players[i])
        best == {i \in DOMAIN players :
                    /\ score(i) > 0
                    /\ \A j \in DOMAIN players : score(j) <= score(i)
                    /\ \A j \in 1..(i - 1) : score(j) < score(i)}
    IN  IF best # {} THEN {players[i].id : i \in best}
        ELSE select_random_target(players)

\* The Option<NightAction> of a decision with the targets `targets` (None: no
\* target was chosen, the decision is Ok(None)).
ActionsOf(type, targets) ==
    {IF target = None THEN NoAction ELSE [action |-> type, target |-> target]
        : target \in targets}

\* The decisions below return the set of what the call can return; `order` is
\* the order the HashMap of the nodes is iterated in.
decide_werewolf_kill(e, nodes, order, strategy_type) ==
    LET alive_players ==
            SelectSeq(e.players, LAMBDA p : p.is_alive /\ p.faction = "Villager")
        trusted == get_most_trusted_player(nodes, order)
    IN  IF alive_players = <<>> THEN {NoAction}
        ELSE ActionsOf("Kill",
                CASE strategy_type = "Aggressive" ->
                        IF trusted # None THEN {trusted}
                        ELSE select_random_target(alive_players)
                  [] strategy_type = "Deceptive" ->
                        select_medium_suspicion_target(alive_players, nodes)
                  [] OTHER -> select_strategic_target(alive_players, nodes))

decide_seer_check(e, nodes, order) ==
    LET alive_players == SelectSeq(e.players, LAMBDA p : p.is_alive /\ p.id # SelfId)
        suspicious == get_most_suspicious_player(nodes, order)
    IN  IF alive_players = <<>> THEN {NoAction}
        ELSE ActionsOf("Check",
                IF suspicious # None THEN {suspicious}
                ELSE select_random_target(alive_players))

\* Heal with no target (70%) or Poison aimed at the most suspicious player, which
\* is no target if there is no node.
decide_witch_action(e, nodes, order) ==
    {[action |-> "Heal", target |-> None],
     [action |-> "Poison", target |-> get_most_suspicious_player(nodes, order)]}

decide_guard_protect(e, nodes, order) ==
    LET alive_players == SelectSeq(e.players, LAMBDA p : p.is_alive /\ p.id # SelfId)
        trusted == get_most_trusted_player(nodes, order)
    IN  ActionsOf("Protect",
            IF trusted # None THEN {trusted}
            ELSE select_random_target(alive_players))

decide_night_action(my_role, e, nodes, order, strategy_type) ==
    CASE my_role = "Werewolf" -> decide_werewolf_kill(e, nodes, order, strategy_type)
      [] my_role = "Seer" -> decide_seer_check(e, nodes, order)
      [] my_role = "Witch" -> decide_witch_action(e, nodes, order)
      [] my_role = "Guard" -> decide_guard_protect(e, nodes, order)
      [] OTHER -> {NoAction}

\* decide_vote_target whose Protective arm returns the most suspicious player
\* when it is the most trusted one, and draws at random when it is not.
decide_vote_target_swapped(e, nodes, order, voting_strategy) ==
    LET alive_players == SelectSeq(e.players, LAMBDA p : p.is_alive /\ p.id # SelfId)
        trusted == get_most_trusted_player(nodes, order)
        suspicious == get_most_suspicious_player(nodes, order)
    IN  IF alive_players = <<>> THEN {None}
        ELSE CASE voting_strategy \in {"Aggressive", "Independent"} -> {suspicious}
               [] voting_strategy = "Protective" ->
                    IF suspicious # None /\ suspicious = trusted THEN {suspicious}
                    ELSE select_random_target(alive_players)
               [] OTHER -> select_random_target(alive_players)

\* The Option<String>s decide_vote_target can return.
decide_vote_target(e, nodes, order, voting_strategy) ==
    LET alive_players == SelectSeq(e.players, LAMBDA p : p.is_alive /\ p.id # SelfId)
        trusted == get_most_trusted_player(nodes, order)
        suspicious == get_most_suspicious_player(nodes, order)
    IN  IF alive_players = <<>> THEN {None}
        ELSE CASE voting_strategy \in {"Aggressive", "Independent"} -> {suspicious}
               [] voting_strategy = "Protective" ->
                    IF suspicious # None /\ suspicious # trusted THEN {suspicious}
                    ELSE select_random_target(alive_players)
               [] OTHER -> select_random_target(alive_players)

\* StrategyEngine::generate_initial_strategy: the strategy_type and the
\* deception_level of the Strategy (traits in tenths).
generate_initial_strategy(traits, faction) ==
    [strategy_type |->
        IF faction = "Werewolf"
        THEN IF traits.deception > 7 THEN "Deceptive"
             ELSE IF traits.aggressiveness > 6 THEN "Aggressive"
             ELSE "Defensive"
        ELSE IF traits.logic > 7 THEN "Logical"
             ELSE IF traits.aggressiveness > 6 THEN "Aggressive"
             ELSE "Neutral",
     deception_level |-> traits.deception]

\* (update_strategy with the raised deception_level capped at 1.0)
update_strategy_capped(st, e) ==
    IF e.day > 3
    THEN [st EXCEPT !.deception_level = IF @ + 1 > 10 THEN 10 ELSE @ + 1,
                    !.strategy_type = IF @ = "Defensive" THEN "Aggressive" ELSE @]
    ELSE st

\* StrategyEngine::update_strategy on the strategy_type and the deception_level
\* (tenths) of current_strategy.
update_strategy(st, e) ==
    IF e.day > 3
    THEN [st EXCEPT !.deception_level = @ + 1,
                    !.strategy_type = IF @ = "Defensive" THEN "Aggressive" ELSE @]
    ELSE st

\* ------------------------------------------------------------------ audio.rs
\* f32::abs on a sample, samples and thresholds in thousandths.
abs(x) == IF x < 0 THEN 0 - x ELSE x

\* The loop of detect_silence from sample i on (i counts from 0 as in the
\* code), start the Option<usize> as a sequence of at most one value.
RECURSIVE silence_loop(_, _, _, _, _, _)
silence_loop(data, threshold, min_duration, i, start, silence_segments) ==
    IF i = Len(data)
    THEN IF start # <<>> /\ Len(data) - start[1] >= min_duration
         THEN Append(silence_segments, <<start[1], Len(data)>>)
         ELSE silence_segments
    ELSE IF abs(data[i + 1]) < threshold
         THEN silence_loop(data, threshold, min_duration, i + 1,
                           IF start = <<>> THEN <<i>> ELSE start, silence_segments)
         ELSE IF start # <<>>
              THEN silence_loop(data, threshold, min_duration, i + 1, <<>>,
                                IF i - start[1] >= min_duration
                                THEN Append(silence_segments, <<start[1], i>>)
                                ELSE silence_segments)
              ELSE silence_loop(data, threshold, min_duration, i + 1, <<>>,
                                silence_segments)

\* (detect_silence without the run that reaches the end of the data)
detect_silence_no_tail(data, threshold, min_duration) ==
    LET all == silence_loop(data, threshold, min_duration, 0, <<>>, <<>>)
    IN  SelectSeq(all, LAMBDA seg : seg[2] < Len(data))

\* AudioManager::detect_silence
detect_silence(data, threshold, min_duration) ==
    silence_loop(data, threshold, min_duration, 0, <<>>, <<>>)

\* ------------------------------------------------------------------ actions
Res(ok) == IF ok THEN "ok" ELSE "err"

\* The ids player_vote is given: any player or a stranger as voter, one of the
\* first MaxTargets players or a stranger as target.
VoterIds == {HumanId, AiIds[1], AiIds[2], AiIds[3], UnknownId}

TargetIds == {(<<HumanId>> \o AiIds)[i] : i \in 1..MaxTargets} \cup {UnknownId}

NoVotes == [id \in VoterIds |-> None]

\* The number of the votes that name target_id.
VotesFor(votes, target_id) ==
    Cardinality({i \in DOMAIN votes : votes[i].target = target_id})

\* The targets no other target has more votes than.
TopTargets(votes) ==
    LET targets == {votes[i].target : i \in DOMAIN votes}
        n == [t \in targets |-> VotesFor(votes, t)]
    IN  {t \in targets : \A u \in targets : n[u] <= n[t]}

\* The first target, in the order the votes were pushed, among the top targets.
FirstMaxTarget(votes) ==
    LET top == TopTargets(votes)
        first == CHOOSE i \in DOMAIN votes :
                    /\ votes[i].target \in top
                    /\ \A j \in 1..(i - 1) : votes[j].target \notin top
    IN  votes[first].target

\* The value of last_tally after a call with outcome r.
Tally(r) ==
    IF ~r.resolved THEN "none"
    ELSE IF r.tallied = <<>> THEN "no votes"
    ELSE IF Cardinality(TopTargets(r.tallied)) = 1 THEN "one top"
    ELSE IF r.log[1].id = FirstMaxTarget(r.tallied) THEN "tie, first"
    ELSE "tie, later"

\* No call made on the GameEngine itself.
NoDriver == [kills |-> <<>>, voted |-> FALSE]

\* No AIAgent has been made.
NoAgent == [player_id |-> None, nodes |-> <<>>]

\* The last step was no call on the agent.
NoDecision == [op |-> "none"]

\* No StrategyEngine has been made.
NoStrategy == [strategy_type |-> "none", deception_level |-> 0, calls |-> 0]

\* GameEngine::new: no countdown runs.
NoTimer ==
    [now |-> 0, config |-> [discussion_time |-> 0, voting_time |-> 0],
     timer |-> <<>>, time_remaining |-> <<>>, duration |-> 0, started |-> 0,
     polls |-> 0, expired |-> FALSE]

\* The tasks that call the AudioManager: two play_audio callers and one
\* is_playing caller.
PlayTasks == {"play_1", "play_2"}

QueryTasks == {"query"}

\* No detect_silence call was made.
NoSilence == [data |-> <<>>, threshold |-> 0, min_duration |-> 0, segments |-> <<>>]

\* AudioManager::new(): nothing plays, the Mutex is free, no task has called.
NoAudio ==
    [is_playing |-> FALSE, lock |-> None,
     pc |-> [t \in PlayTasks \cup QueryTasks |-> "idle"],
     calls |-> [t \in PlayTasks \cup QueryTasks |-> 0],
     arrived_playing |-> [t \in PlayTasks \cup QueryTasks |-> FALSE],
     outcome |-> [t \in PlayTasks \cup QueryTasks |-> "none"],
     silence |-> NoSilence]

\* No agent of a round has acted.
NoReply == [status |-> "none", action |-> None, target |-> None]

NoNightStep ==
    [agents |-> <<>>, player |-> None, response |-> NoReply, action |-> NoAction]

\* GameManager::new()
Init ==
    /\ engine = NoEngine
    /\ llm_manager = FALSE
    /\ is_running = FALSE
    /\ last_op = "new"
    /\ result = "ok"
    /\ last_phase = "NoEngine"
    /\ last_call = NoCall
    /\ elim_log = <<>>
    /\ last_tally = "none"
    /\ latest_vote = NoVotes
    /\ created = {}
    /\ driver = NoDriver
    /\ night_round = NoRound
    /\ llm_call = NoLlmCall
    /\ agent = NoAgent
    /\ decision = NoDecision
    /\ current_strategy = NoStrategy
    /\ timer = NoTimer
    /\ audio = NoAudio
    /\ night_step = NoNightStep

SetLlmManager ==
    /\ llm_manager' = TRUE
    /\ UNCHANGED <<engine, is_running, last_op, result, last_phase, last_call, elim_log,
                   last_tally, latest_vote, created, driver, night_round, llm_call,
                   agent, decision, current_strategy, timer, audio, night_step>>

CreateGame ==
    \E total_players \in PlayerCounts :
        \E roles \in ShuffledDecks(total_players) :
            /\ engine' = initialize_game(new, roles)
            /\ is_running' = FALSE
            /\ created' = {engine'.players[i] : i \in DOMAIN engine'.players}
            /\ last_op' = "create_game"
            /\ result' = "ok"
            /\ last_phase' = engine.phase
            /\ last_call' = NoCall
            /\ elim_log' = <<>>
            /\ last_tally' = "none"
            /\ latest_vote' = NoVotes
            /\ UNCHANGED <<llm_manager, driver, night_round, llm_call, agent, decision,
                           current_strategy, timer, audio, night_step>>

StartGame ==
    LET r == IF engine = NoEngine THEN [eng |-> engine, ok |-> FALSE]
             ELSE start_game(engine)
    IN  /\ engine' = r.eng
        /\ is_running' = IF r.ok THEN TRUE ELSE is_running
        /\ last_op' = "start_game"
        /\ result' = Res(r.ok)
        /\ last_phase' = engine.phase
        /\ last_call' = NoCall
        /\ elim_log' = IF r.ok THEN <<>> ELSE elim_log
        /\ last_tally' = IF r.ok THEN "none" ELSE last_tally
        /\ UNCHANGED <<llm_manager, latest_vote, created, driver, night_round, llm_call,
                       agent, decision, current_strategy, timer, audio, night_step>>

EndGame ==
    /\ engine' = NoEngine
    /\ is_running' = FALSE
    /\ created' = {}
    /\ last_op' = "end_game"
    /\ result' = "ok"
    /\ last_phase' = engine.phase
    /\ last_call' = NoCall
    /\ elim_log' = <<>>
    /\ last_tally' = "none"
    /\ latest_vote' = NoVotes
    /\ UNCHANGED <<llm_manager, driver, night_round, llm_call, agent, decision,
                   current_strategy, timer, audio, night_step>>

\* player_vote(voter_id, target_id) with a voter of `voters` and a target of
\* `targets`, the day counter capped at max_day.
PlayerVoteOf(voters, targets, max_day) ==
    \E r \in UNION {
                IF engine = NoEngine
                THEN {[eng |-> engine, ok |-> FALSE, log |-> <<>>, resolved |-> FALSE,
                       tallied |-> <<>>, call |-> NoCall]}
                ELSE player_vote(engine, llm_manager, voter_id, target_id)
                : voter_id \in voters, target_id \in targets} :
        /\ r.eng.day <= max_day
        /\ engine' = r.eng
        /\ last_op' = "player_vote"
        /\ result' = Res(r.ok)
        /\ last_phase' = engine.phase
        /\ last_call' = r.call
        /\ elim_log' = IF r.ok THEN r.log ELSE elim_log
        /\ last_tally' = IF r.ok THEN Tally(r) ELSE last_tally
        /\ latest_vote' = IF r.resolved THEN NoVotes
                          ELSE IF r.call = NoCall THEN latest_vote
                          ELSE [latest_vote EXCEPT ![r.call.voter] = r.call.target]
        /\ UNCHANGED <<llm_manager, is_running, created, driver, night_round, llm_call,
                       agent, decision, current_strategy, timer, audio, night_step>>

PlayerVote == PlayerVoteOf(VoterIds, TargetIds, MaxDay)

\* proceed_to_next_phase, the day counter capped at max_day; if rec, the round it
\* runs is recorded in night_round.
ProceedTo(rec, max_day) ==
    \E r \in (IF engine = NoEngine
              THEN {[eng |-> engine, ok |-> FALSE, log |-> <<>>, resolved |-> FALSE,
                     tallied |-> <<>>, round |-> NoRound]}
              ELSE proceed_to_next_phase(engine, llm_manager, rec)) :
        /\ r.eng.day <= max_day
        /\ engine' = r.eng
        /\ last_op' = "proceed_to_next_phase"
        /\ result' = Res(r.ok)
        /\ last_phase' = engine.phase
        /\ last_call' = NoCall
        /\ elim_log' = IF r.ok THEN r.log ELSE elim_log
        /\ last_tally' = IF r.ok THEN Tally(r) ELSE last_tally
        /\ latest_vote' = IF r.resolved THEN NoVotes ELSE latest_vote
        /\ night_round' = IF rec THEN r.round ELSE night_round
        /\ UNCHANGED <<llm_manager, is_running, created, driver, llm_call, agent,
                       decision, current_strategy, timer, audio, night_step>>

Proceed(rec) == ProceedTo(rec, MaxDay)

ProceedToNextPhase == Proceed(FALSE)

ProceedRecorded == Proceed(TRUE)

\* The player counts of the table of generate_role_distribution.
TableCounts == {6, 8, 10, 12}

\* create_game, as the first call on a new manager, with `total_players` and a
\* deck one of the shuffles `shuffles` leaves.
CreateGameOf(total_players, shuffles) ==
    /\ engine = NoEngine
    /\ last_op = "new"
    /\ \E order \in DeckOrders(total_players), swaps \in shuffles :
            /\ engine' = initialize_game(new, BoundedDeck(total_players, order, swaps))
            /\ is_running' = FALSE
            /\ created' = {engine'.players[i] : i \in DOMAIN engine'.players}
            /\ last_op' = "create_game"
            /\ result' = "ok"
            /\ last_phase' = engine.phase
            /\ last_call' = NoCall
            /\ elim_log' = <<>>
            /\ last_tally' = "none"
            /\ latest_vote' = NoVotes
            /\ UNCHANGED <<llm_manager, driver, night_round, llm_call, agent, decision,
                           current_strategy, timer, audio, night_step>>

\* A game of PlayerCounts created on a new manager.
CreateSmallGame ==
    \E total_players \in PlayerCounts :
        CreateGameOf(total_players, DeckSwaps(total_players))

CreateTableGame ==
    \E total_players \in TableCounts :
        CreateGameOf(total_players, DeckSwaps(total_players))

\* create_game with total_players = 0, as the first call on a new manager. The
\* default arm of generate_role_distribution computes 0 - 2 in a u8: a build
\* with overflow checks panics there (the call never returns and the manager is
\* as it was), a build without them goes on with 254 villagers.
CreateZeroGame ==
    \/ /\ engine = NoEngine
       /\ last_op = "new"
       /\ last_op' = "create_game"
       /\ result' = "panic"
       /\ UNCHANGED <<engine, llm_manager, is_running, last_phase, last_call, elim_log,
                      last_tally, latest_vote, created, driver, night_round, llm_call,
                      agent, decision, current_strategy, timer, audio, night_step>>
    \/ CreateGameOf(0, FirstDrawSwaps(0))

\* The ids a caller of the GameEngine itself votes with, and the targets of its
\* night actions.
EngineVoters == {HumanId, AiIds[1]}

NightTargets == TargetIds \cup {None}

\* The role of the living or dead player player_id (None: no such player).
RoleOf(e, player_id) ==
    LET all == e.players \o e.dead_players
    IN  IF \E i \in DOMAIN all : all[i].id = player_id
        THEN all[CHOOSE i \in DOMAIN all : all[i].id = player_id].role.role_type
        ELSE None

\* GameEngine::start_game, called on the engine itself.
EngineStartGame ==
    /\ engine # NoEngine
    /\ LET r == start_game(engine)
       IN  /\ engine' = r.eng
           /\ last_op' = "engine.start_game"
           /\ result' = Res(r.ok)
           /\ last_phase' = engine.phase
           /\ last_call' = NoCall
           /\ elim_log' = IF r.ok THEN <<>> ELSE elim_log
           /\ last_tally' = IF r.ok THEN "none" ELSE last_tally
           /\ UNCHANGED <<llm_manager, is_running, latest_vote, created, driver,
                          night_round, llm_call, agent, decision, current_strategy,
                          timer, audio, night_step>>

\* GameEngine::next_phase, called on the engine itself.
EngineNextPhaseTo(max_day) ==
    /\ engine # NoEngine
    /\ \E r \in next_phase(engine) :
            /\ r.eng.day <= max_day
            /\ engine' = r.eng
            /\ last_op' = "engine.next_phase"
            /\ result' = Res(r.ok)
            /\ last_phase' = engine.phase
            /\ last_call' = NoCall
            /\ elim_log' = IF r.ok THEN r.log ELSE elim_log
            /\ last_tally' = IF r.ok THEN Tally(r) ELSE last_tally
            /\ latest_vote' = IF r.resolved THEN NoVotes ELSE latest_vote
            /\ UNCHANGED <<llm_manager, is_running, created, driver, night_round,
                           llm_call, agent, decision, current_strategy, timer, audio,
                           night_step>>

EngineNextPhase == EngineNextPhaseTo(MaxDay)

\* GameEngine::vote, called on the engine itself.
EngineVote ==
    /\ engine # NoEngine
    /\ \E voter_id \in EngineVoters, target_id \in TargetIds :
            LET v == vote(engine, voter_id, target_id)
            IN  /\ engine' = v.eng
                /\ last_op' = "engine.vote"
                /\ result' = Res(v.ok)
                /\ last_phase' = engine.phase
                /\ last_call' = NoCall
                /\ elim_log' = IF v.ok THEN <<>> ELSE elim_log
                /\ last_tally' = IF v.ok THEN "none" ELSE last_tally
                /\ latest_vote' = IF v.ok THEN [latest_vote EXCEPT ![voter_id] = target_id]
                                  ELSE latest_vote
                /\ driver' = [driver EXCEPT !.voted = driver.voted \/ v.ok]
                /\ UNCHANGED <<llm_manager, is_running, created, night_round, llm_call,
                               agent, decision, current_strategy, timer, audio,
                               night_step>>

\* GameEngine::execute_night_action, called on the engine itself (it checks
\* neither the phase nor the player who acts).
EngineNightAction ==
    /\ engine # NoEngine
    /\ \E type \in NightActionTypes, target \in NightTargets :
            LET kill == type = "Kill" /\ target # None
            IN  /\ kill => Len(driver.kills) < MaxKills
                /\ engine' = execute_night_action(engine, [action |-> type, target |-> target])
                /\ last_op' = "engine.execute_night_action"
                /\ result' = "ok"
                /\ last_phase' = engine.phase
                /\ last_call' = NoCall
                /\ elim_log' = IF kill
                               THEN <<[id |-> target, alive |-> is_player_alive(engine, target)]>>
                               ELSE <<>>
                /\ last_tally' = "none"
                /\ driver' = IF kill
                             THEN [driver EXCEPT !.kills =
                                      Append(driver.kills,
                                             [target |-> target,
                                              alive |-> is_player_alive(engine, target),
                                              role |-> RoleOf(engine, target),
                                              first_night |->
                                                  engine.phase = "Night"
                                                      /\ engine.day = 1])]
                             ELSE driver
                /\ UNCHANGED <<llm_manager, is_running, latest_vote, created,
                               night_round, llm_call, agent, decision, current_strategy,
                               timer, audio, night_step>>

\* The shuffle whose every iteration draws j = i.
IdleShuffle == {<<>>}

\* The 8-player game, and the calls on its engine.
EngineNext ==
    \/ CreateGameOf(8, IdleShuffle)
    \/ EngineStartGame
    \/ EngineNextPhase
    \/ EngineVote
    \/ EngineNightAction

\* ---------------------------------------------------------- the AIAgent
\* The Evidence.weight values (tenths) add_evidence is given: negative, the 0.3
\* of analyze_vote, the greatest weight analyze_speech gives (1.0), and 10.0.
Weights == {-10, 3, 10, 100}

\* The Evidence values add_evidence is given: every type and weight; the
\* confidence (tenths) is read for SpeechAnalysis only.
Evidences ==
    [evidence_type : EvidenceTypes, confidence : {8}, weight : Weights]
        \cup [evidence_type : {"SpeechAnalysis"}, confidence : {6}, weight : Weights]

\* The add_evidence calls that pushed an Evidence on a node.
EvidenceCount(nodes) ==
    LET RECURSIVE Sum(_)
        Sum(S) == IF S = {} THEN 0
                  ELSE LET id == CHOOSE x \in S : TRUE
                       IN  Len(nodes[id].evidence) + Sum(S \ {id})
    IN  Sum(DOMAIN nodes)

\* GameConfig.role_distribution[Werewolf] of the game of the engine.
ConfiguredWerewolves == generate_role_distribution(Cardinality(created))["Werewolf"]

\* AIAgent::new for an agent player of the game, and AIAgent::initialize with the
\* current GameState.
AgentInitialize ==
    /\ engine # NoEngine
    /\ agent = NoAgent
    /\ \E p \in created :
            /\ p.is_ai
            /\ agent' = [player_id |-> p.id,
                         nodes |-> initialize(engine, ConfiguredWerewolves)]
            /\ decision' = [op |-> "initialize", player_id |-> p.id, target_id |-> None]
    /\ UNCHANGED <<engine, llm_manager, is_running, last_op, result, last_phase,
                   last_call, elim_log, last_tally, latest_vote, created, driver,
                   night_round, llm_call, current_strategy, timer, audio, night_step>>

\* ReasoningEngine::add_evidence(player_id, evidence) with an Evidence of
\* `evidences`.
AddEvidenceOf(evidences) ==
    /\ agent # NoAgent
    /\ EvidenceCount(agent.nodes) < MaxEvidence
    /\ \E player_id \in TargetIds, evidence \in evidences :
            /\ agent' = [agent EXCEPT !.nodes = add_evidence(@, player_id, evidence)]
            /\ decision' = [op |-> "add_evidence", player_id |-> player_id,
                            target_id |-> None]
    /\ UNCHANGED <<engine, llm_manager, is_running, last_op, result, last_phase,
                   last_call, elim_log, last_tally, latest_vote, created, driver,
                   night_round, llm_call, current_strategy, timer, audio, night_step>>

AddEvidence == AddEvidenceOf(Evidences)

\* AIAgent::process_vote: ReasoningEngine::analyze_vote(voter, target).
AnalyzeVote ==
    /\ agent # NoAgent
    /\ EvidenceCount(agent.nodes) < MaxEvidence
    /\ \E voter_id \in TargetIds, target_id \in TargetIds :
            /\ agent' = [agent EXCEPT !.nodes = analyze_vote(@, voter_id, target_id)]
            /\ decision' = [op |-> "analyze_vote", player_id |-> voter_id,
                            target_id |-> target_id]
    /\ UNCHANGED <<engine, llm_manager, is_running, last_op, result, last_phase,
                   last_call, elim_log, last_tally, latest_vote, created, driver,
                   night_round, llm_call, current_strategy, timer, audio, night_step>>

\* A game of PlayerCounts, its deck as role_distribution was iterated.
CreateAgentGame ==
    \E total_players \in PlayerCounts : CreateGameOf(total_players, IdleShuffle)

\* The belief model of an agent of a new game.
BeliefNext ==
    \/ CreateAgentGame
    \/ AgentInitialize
    \/ AddEvidence
    \/ AnalyzeVote

BeliefSpec == Init /\ [][BeliefNext]_vars

\* The Evidence values the agent whose decisions are followed is given.
StrategyEvidences ==
    {[evidence_type |-> "DefensiveBehavior", confidence |-> 8, weight |-> 10],
     [evidence_type |-> "SpeechAnalysis", confidence |-> 8, weight |-> 10],
     [evidence_type |-> "SpeechAnalysis", confidence |-> 8, weight |-> -10],
     [evidence_type |-> "LogicalInconsistency", confidence |-> 8, weight |-> 10]}

StrategyEvidence == AddEvidenceOf(StrategyEvidences)

\* The last step was a decision of the agent.
Decided == decision.op \in {"decide_night_action", "decide_vote_target"}

\* The orders the HashMap of the nodes can be iterated in.
NodeOrders == Orders(DOMAIN agent.nodes)

\* The role an AIAgent is given and the strategy_type of its StrategyEngine: a
\* werewolf with every strategy type (the only role whose decision reads it),
\* the other roles with the type generate_initial_strategy gives by default.
NightInputs ==
    [my_role : {"Werewolf"}, strategy_type : StrategyTypes]
        \cup [my_role : RoleTypes \ {"Werewolf"}, strategy_type : {"Neutral"}]

\* StrategyEngine::decide_night_action(my_role, game_state, reasoning) with the
\* current GameState.  The decision records what was passed, what
\* get_most_trusted_player and get_most_suspicious_player return, and the
\* NightAction returned (target None with action None: Ok(None)).
DecideNightAction ==
    /\ engine # NoEngine
    /\ agent # NoAgent
    /\ ~Decided
    /\ \E in \in NightInputs, order \in NodeOrders :
         \E action \in decide_night_action(in.my_role, engine, agent.nodes, order,
                                           in.strategy_type) :
            decision' = [op |-> "decide_night_action", player_id |-> agent.player_id,
                         my_role |-> in.my_role, strategy |-> in.strategy_type,
                         trusted |-> get_most_trusted_player(agent.nodes, order),
                         suspicious |-> get_most_suspicious_player(agent.nodes, order),
                         action |-> action.action, target |-> action.target]
    /\ UNCHANGED <<engine, llm_manager, is_running, last_op, result, last_phase,
                   last_call, elim_log, last_tally, latest_vote, created, driver,
                   night_round, llm_call, agent, current_strategy, timer, audio,
                   night_step>>

\* StrategyEngine::decide_vote_target(game_state, reasoning) with the current
\* GameState, for every current_strategy.voting_strategy.
DecideVoteTarget ==
    /\ engine # NoEngine
    /\ agent # NoAgent
    /\ ~Decided
    /\ \E voting_strategy \in VotingStrategies, order \in NodeOrders :
         \E target \in decide_vote_target(engine, agent.nodes, order, voting_strategy) :
            decision' = [op |-> "decide_vote_target", player_id |-> agent.player_id,
                         my_role |-> None, strategy |-> voting_strategy,
                         trusted |-> get_most_trusted_player(agent.nodes, order),
                         suspicious |-> get_most_suspicious_player(agent.nodes, order),
                         action |-> None, target |-> target]
    /\ UNCHANGED <<engine, llm_manager, is_running, last_op, result, last_phase,
                   last_call, elim_log, last_tally, latest_vote, created, driver,
                   night_round, llm_call, agent, current_strategy, timer, audio,
                   night_step>>

\* An agent of a game of PlayerCounts, its belief model, the night actions that
\* eliminate players of the game, and the decisions of the agent; a decision
\* changes nothing, and the behaviour is followed up to its first decisions.
StrategyNext ==
    \/ ~Decided /\ CreateAgentGame
    \/ ~Decided /\ EngineNightAction
    \/ ~Decided /\ AgentInitialize
    \/ ~Decided /\ StrategyEvidence
    \/ DecideNightAction
    \/ DecideVoteTarget

StrategySpec == Init /\ [][StrategyNext]_vars

\* ---------------------------------------------------------- the AudioManager
\* The samples (thousandths) detect_silence is given: silent ones of either
\* sign, one equal to the greatest threshold, a loud one.
Samples == {0, -2, 10, 500}

\* The thresholds (thousandths): none, between the silent samples, the 0.01 of
\* the test.
Thresholds == {0, 1, 10}

RECURSIVE SeqsUpTo(_, _)
SeqsUpTo(S, n) ==
    IF n = 0 THEN {<<>>}
    ELSE LET shorter == SeqsUpTo(S, n - 1)
         IN  shorter \cup {Append(q, x) : q \in shorter, x \in S}

\* AudioManager::detect_silence(data, threshold, min_duration): a pure function
\* of its arguments, so one call is made.
DetectSilence ==
    /\ audio.silence = NoSilence
    /\ \E data \in SeqsUpTo(Samples, MaxSamples), threshold \in Thresholds,
          min_duration \in 0..MaxSamples :
            audio' = [audio EXCEPT !.silence =
                        [data |-> data, threshold |-> threshold,
                         min_duration |-> min_duration,
                         segments |-> detect_silence(data, threshold, min_duration)]]
    /\ UNCHANGED <<engine, llm_manager, is_running, last_op, result, last_phase,
                   last_call, elim_log, last_tally, latest_vote, created, driver,
                   night_round, llm_call, agent, decision, current_strategy, timer,
                   night_step>>

SilenceNext == DetectSilence

SilenceSpec == Init /\ [][SilenceNext]_vars


\* ------------------------------------------------------ the StrategyEngine
\* PersonalityTraits (tenths) of the agents' personalities: deception from the
\* templates' 0.2 to the 1.0 that optimize_for_role caps it at.
Traits == [deception : {2, 8, 10}, aggressiveness : {3, 7}, logic : {3, 8}]

\* StrategyEngine::new(personality, role)
NewStrategy ==
    /\ current_strategy = NoStrategy
    /\ \E traits \in Traits, faction \in {"Werewolf", "Villager"} :
            LET st == generate_initial_strategy(traits, faction)
            IN  current_strategy' = [strategy_type |-> st.strategy_type,
                                     deception_level |-> st.deception_level,
                                     calls |-> 0]
    /\ UNCHANGED <<engine, llm_manager, is_running, last_op, result, last_phase,
                   last_call, elim_log, last_tally, latest_vote, created, driver,
                   night_round, llm_call, agent, decision, timer, audio, night_step>>

\* StrategyEngine::update_strategy(game_state, reasoning) with the current
\* GameState, as AIAgent::update_reasoning calls it before every decision.
UpdateStrategy ==
    /\ engine # NoEngine
    /\ current_strategy.strategy_type # "none"
    /\ current_strategy.calls < MaxUpdates
    /\ LET st == update_strategy(current_strategy, engine)
       IN  current_strategy' = [st EXCEPT !.calls = @ + 1]
    /\ UNCHANGED <<engine, llm_manager, is_running, last_op, result, last_phase,
                   last_call, elim_log, last_tally, latest_vote, created, driver,
                   night_round, llm_call, agent, decision, timer, audio, night_step>>

\* The 8-player game advanced up to day MaxLateDay, and the strategy of one of
\* its agents.
EscalationNext ==
    \/ CreateGameOf(8, IdleShuffle)
    \/ EngineStartGame
    \/ EngineNextPhaseTo(MaxLateDay)
    \/ NewStrategy
    \/ UpdateStrategy

EscalationSpec == Init /\ [][EscalationNext]_vars

\* ------------------------------------------------------ the phase countdown
\* The phases start_phase_timer is called in.
TimerPhases == {"Night", "DayDiscussion", "Voting"}

\* GameEngine::new(config): the discussion_time and voting_time of the game.
ConfigureTimer ==
    /\ timer = NoTimer
    /\ \E discussion_time \in 0..MaxDuration, voting_time \in 0..MaxDuration :
            timer' = [NoTimer EXCEPT !.config = [discussion_time |-> discussion_time,
                                                 voting_time |-> voting_time]]
    /\ UNCHANGED <<engine, llm_manager, is_running, last_op, result, last_phase,
                   last_call, elim_log, last_tally, latest_vote, created, driver,
                   night_round, llm_call, agent, decision, current_strategy, audio,
                   night_step>>

\* start_phase_timer, as start_game and next_phase call it on entering a phase.
StartPhaseTimer ==
    /\ \E phase \in TimerPhases :
            LET t == start_phase_timer(timer, phase)
            IN  timer' = IF phase_duration(timer, phase) > 0
                         THEN [t EXCEPT !.duration = phase_duration(timer, phase),
                                        !.started = timer.now, !.polls = 0,
                                        !.expired = FALSE]
                         ELSE t
    /\ UNCHANGED <<engine, llm_manager, is_running, last_op, result, last_phase,
                   last_call, elim_log, last_tally, latest_vote, created, driver,
                   night_round, llm_call, agent, decision, current_strategy, audio,
                   night_step>>

\* A second passes.
Tick ==
    /\ timer.now < MaxNow
    /\ timer' = [timer EXCEPT !.now = @ + 1]
    /\ UNCHANGED <<engine, llm_manager, is_running, last_op, result, last_phase,
                   last_call, elim_log, last_tally, latest_vote, created, driver,
                   night_round, llm_call, agent, decision, current_strategy, audio,
                   night_step>>

\* GameEngine::update_timer (GameManager::update_timer polls it).
UpdateTimer ==
    /\ timer.polls < MaxPolls
    /\ LET r == update_timer(timer)
       IN  timer' = [r.t EXCEPT !.polls = @ + 1, !.expired = r.expired]
    /\ UNCHANGED <<engine, llm_manager, is_running, last_op, result, last_phase,
                   last_call, elim_log, last_tally, latest_vote, created, driver,
                   night_round, llm_call, agent, decision, current_strategy, audio,
                   night_step>>

TimerNext ==
    \/ ConfigureTimer
    \/ StartPhaseTimer
    \/ Tick
    \/ UpdateTimer

TimerSpec == Init /\ [][TimerNext]_vars

\* ------------------------------------------------------------ the playback
\* A playback is in progress: a play_audio call is in its sleep.
Playing == \E u \in PlayTasks : audio.pc[u] = "sleeping"

\* A task calls play_audio or is_playing: it awaits is_playing.lock().
Request(tasks) ==
    /\ \E t \in tasks :
            /\ audio.pc[t] = "idle"
            /\ audio.calls[t] < MaxRequests
            /\ audio' = [audio EXCEPT !.pc[t] = "locking",
                                      !.calls[t] = @ + 1,
                                      !.arrived_playing[t] = Playing,
                                      !.outcome[t] = "none"]
    /\ UNCHANGED <<engine, llm_manager, is_running, last_op, result, last_phase,
                   last_call, elim_log, last_tally, latest_vote, created, driver,
                   night_round, llm_call, agent, decision, current_strategy, timer,
                   night_step>>

PlayAudio == Request(PlayTasks)

IsPlaying == Request(QueryTasks)

\* play_audio gets the Mutex: it returns if the flag is set, else it sets the
\* flag and sleeps, the MutexGuard still alive.
PlayAudioLocked ==
    /\ \E t \in PlayTasks :
            /\ audio.pc[t] = "locking"
            /\ audio.lock = None
            /\ audio' = IF audio.is_playing
                        THEN [audio EXCEPT !.pc[t] = "idle", !.outcome[t] = "skipped"]
                        ELSE [audio EXCEPT !.is_playing = TRUE, !.lock = t,
                                           !.pc[t] = "sleeping"]
    /\ UNCHANGED <<engine, llm_manager, is_running, last_op, result, last_phase,
                   last_call, elim_log, last_tally, latest_vote, created, driver,
                   night_round, llm_call, agent, decision, current_strategy, timer,
                   night_step>>

\* The sleep of play_audio ends: it clears the flag and returns, which drops the
\* MutexGuard.
PlayAudioDone ==
    /\ \E t \in PlayTasks :
            /\ audio.pc[t] = "sleeping"
            /\ audio' = [audio EXCEPT !.is_playing = FALSE, !.lock = None,
                                      !.pc[t] = "idle", !.outcome[t] = "played"]
    /\ UNCHANGED <<engine, llm_manager, is_running, last_op, result, last_phase,
                   last_call, elim_log, last_tally, latest_vote, created, driver,
                   night_round, llm_call, agent, decision, current_strategy, timer,
                   night_step>>

\* is_playing gets the Mutex and returns the flag.
IsPlayingLocked ==
    /\ \E t \in QueryTasks :
            /\ audio.pc[t] = "locking"
            /\ audio.lock = None
            /\ audio' = [audio EXCEPT !.pc[t] = "idle",
                                      !.outcome[t] = IF audio.is_playing THEN "true"
                                                     ELSE "false"]
    /\ UNCHANGED <<engine, llm_manager, is_running, last_op, result, last_phase,
                   last_call, elim_log, last_tally, latest_vote, created, driver,
                   night_round, llm_call, agent, decision, current_strategy, timer,
                   night_step>>

AudioNext ==
    \/ PlayAudio
    \/ PlayAudioLocked
    \/ PlayAudioDone
    \/ IsPlaying
    \/ IsPlayingLocked

AudioSpec == Init /\ [][AudioNext]_vars

\* --------------------------------------------- a night round, agent by agent
\* The reply of the service as [status, action, target].
Reply(response) ==
    IF response.status = "json" THEN response
    ELSE [status |-> response.status, action |-> None, target |-> None]

\* proceed_to_next_phase on a created game, up to the loop of
\* execute_night_actions: next_phase starts the game, the phase is Night and the
\* snapshot ai_players is taken.
ProceedIntoNight ==
    /\ engine # NoEngine
    /\ engine.phase = "Preparation"
    /\ llm_manager
    /\ \E r \in next_phase(engine) :
            /\ engine' = r.eng
            /\ night_step' =
                  [NoNightStep EXCEPT !.agents =
                      SelectSeq(r.eng.players,
                                LAMBDA p : p.is_alive /\ p.is_ai
                                             /\ p.role.has_night_action)]
            /\ last_op' = "proceed_to_next_phase"
            /\ result' = Res(r.ok)
            /\ last_phase' = engine.phase
            /\ last_call' = NoCall
            /\ elim_log' = <<>>
            /\ last_tally' = "none"
    /\ UNCHANGED <<llm_manager, is_running, latest_vote, created, driver, night_round,
                   llm_call, agent, decision, current_strategy, timer, audio>>

\* One iteration of the loop: generate_ai_night_action for the next agent of
\* the snapshot, and engine.execute_night_action of what it returned.
NightAgentStep ==
    /\ night_step.agents # <<>>
    /\ LET player == Head(night_step.agents)
       IN  \E response \in Responses(engine) :
             \E g \in generate_ai_night_action(engine, player, llm_manager) :
                /\ g.reply = response.status
                /\ g.action = parse_night_action_response(response)
                /\ engine' = IF g.action = NoAction THEN engine
                             ELSE execute_night_action(engine, g.action)
                /\ night_step' = [agents |-> Tail(night_step.agents),
                                  player |-> player.id,
                                  response |-> Reply(response),
                                  action |-> g.action]
                /\ elim_log' = IF g.action.action = "Kill" /\ g.action.target # None
                               THEN Append(elim_log,
                                           [id |-> g.action.target,
                                            alive |-> is_player_alive(engine,
                                                                      g.action.target)])
                               ELSE elim_log
    /\ UNCHANGED <<llm_manager, is_running, last_op, result, last_phase, last_call,
                   last_tally, latest_vote, created, driver, night_round, llm_call,
                   agent, decision, current_strategy, timer, audio>>

\* The 6-player game (two werewolves, two villagers, a seer and a witch) with a
\* text-generation service, and its first night.
ReplyNext ==
    \/ SetLlmManager
    \/ CreateGameOf(6, IdleShuffle)
    \/ ProceedIntoNight
    \/ NightAgentStep

ReplySpec == Init /\ [][ReplyNext]_vars

\* ------------------------------------------------- a game played to its end
\* GameConfig.total_players of the games that are played to their end: one that
\* the first Voting resolution ends, one that takes several.
PlayCounts == {4, 5}

\* The ids of the players of those games.
PlayIds == {HumanId} \cup {AiIds[i] : i \in 1..4}

CreatePlayGame ==
    \E total_players \in PlayCounts : CreateGameOf(total_players, IdleShuffle)

\* start_game on the game as created.
StartCreatedGame == engine.phase = "Preparation" /\ StartGame

\* A player_vote in a Voting round that has fewer than MaxRoundVotes votes.
RoundVote ==
    /\ engine.phase = "Voting"
    /\ Len(engine.votes) < MaxRoundVotes
    /\ PlayerVoteOf(PlayIds, PlayIds, MaxLateDay)

\* A player_vote that registers a vote.
CastVote == RoundVote /\ result' = "ok"

\* proceed_to_next_phase on a game that is not over, a Voting round only once a
\* vote is pending.
Advance ==
    /\ engine.phase \in {"Preparation", "Night", "DayDiscussion", "Voting"}
    /\ engine.phase = "Voting" => engine.votes # <<>>
    /\ ProceedTo(FALSE, MaxLateDay)

PlayNext ==
    \/ SetLlmManager
    \/ CreatePlayGame
    \/ StartCreatedGame
    \/ RoundVote
    \/ Advance

\* The orchestrator keeps advancing the phases, and a vote is cast in every
\* Voting round.
PlaySpec == Init /\ [][PlayNext]_vars /\ WF_vars(Advance) /\ WF_vars(CastVote)

Next ==
    \/ SetLlmManager
    \/ CreateGame
    \/ StartGame
    \/ EndGame
    \/ PlayerVote
    \/ ProceedToNextPhase

Spec == Init /\ [][Next]_vars

\* create_game with no players asked for.
ZeroSpec == Init /\ [][CreateZeroGame]_vars

\* A caller starts generate_with_fallback on a manager with some fallbacks.
LlmCall ==
    /\ llm_call.status = "idle"
    /\ \E fallbacks \in 0..MaxFallbacks :
            llm_call' = [NoLlmCall EXCEPT !.status = "running", !.fallbacks = fallbacks]
    /\ UNCHANGED <<engine, llm_manager, is_running, last_op, result, last_phase,
                   last_call, elim_log, last_tally, latest_vote, created, driver,
                   night_round, agent, decision, current_strategy, timer, audio,
                   night_step>>

\* One generate_single of the call returns.
LlmAttempt ==
    /\ llm_call.status = "running"
    /\ \E out \in LlmOutcomes : llm_call' = generate_with_fallback(llm_call, out)
    /\ UNCHANGED <<engine, llm_manager, is_running, last_op, result, last_phase,
                   last_call, elim_log, last_tally, latest_vote, created, driver,
                   night_round, agent, decision, current_strategy, timer, audio,
                   night_step>>

LlmNext == LlmCall \/ LlmAttempt

LlmSpec == Init /\ [][LlmNext]_vars

\* Every generate_single that is awaited returns, with Ok or with Err.
LlmLiveSpec == Init /\ [][LlmNext]_vars /\ WF_vars(LlmAttempt)

\* The phases of a game advanced by proceed_to_next_phase alone, with the rounds
\* of night actions recorded.
NightNext ==
    \/ SetLlmManager
    \/ CreateSmallGame
    \/ ProceedRecorded

NightSpec == Init /\ [][NightNext]_vars

\* The 8-player game driven through the GameEngine's own methods.
EngineSpec == Init /\ [][EngineNext]_vars

\* The games of the table, as create_game leaves them.
TableSpec == Init /\ [][CreateTableGame]_vars

\* ------------------------------------------------------------------- claims
LiveIds == IF engine = NoEngine THEN {} ELSE Ids(engine.players)

DeadIds == IF engine = NoEngine THEN {} ELSE Ids(engine.dead_players)

\* The step is a call of the GameManager method op (set_llm_manager, the one
\* method that leaves the history alone, changes llm_manager or nothing).
Called(op) == last_op' = op /\ llm_manager' = llm_manager

\* C1: the pending votes hold at most one vote per voter, and a voter's pending
\* vote names the target of that voter's latest registered vote of the round.
C1_OneVotePerVoter ==
    engine # NoEngine =>
        /\ \A i, j \in DOMAIN engine.votes :
              engine.votes[i].voter = engine.votes[j].voter => i = j
        /\ \A id \in VoterIds :
              IF latest_vote[id] = None
              THEN \A i \in DOMAIN engine.votes : engine.votes[i].voter # id
              ELSE \E i \in DOMAIN engine.votes :
                      engine.votes[i] = [voter |-> id, target |-> latest_vote[id]]

\* A voter voted again while an earlier vote of theirs was pending, next to
\* another voter's vote.
C1_Witness ==
    /\ last_op = "player_vote" /\ result = "ok"
    /\ last_call.replaced
    /\ engine.phase = "Voting"
    /\ Len(engine.votes) >= 2
    /\ latest_vote[last_call.voter] = last_call.target

\* A vote is legal in the phase Voting between two players of the live roster.
VoteLegal(voter_id, target_id) ==
    /\ engine # NoEngine
    /\ engine.phase = "Voting"
    /\ voter_id \in LiveIds
    /\ target_id \in LiveIds

\* C2: vote succeeds exactly when the phase is Voting and voter and target are in
\* the live roster; otherwise it returns an error and the GameState is unchanged.
\* Stated of vote on every reachable state and input, and of every player_vote step.
C2_VoteGuard ==
    /\ [](engine # NoEngine =>
            \A voter_id \in VoterIds, target_id \in TargetIds :
                LET r == vote(engine, voter_id, target_id)
                IN  /\ r.ok <=> VoteLegal(voter_id, target_id)
                    /\ ~r.ok => r.eng = engine)
    /\ [][/\ (Called("player_vote") /\ result' = "ok")
               => VoteLegal(last_call'.voter, last_call'.target)
          /\ (Called("player_vote") /\ result' = "err") => engine' = engine
         ]_vars

\* A player_vote was rejected in the phase Voting, after a player had died.
C2_Witness ==
    /\ last_op = "player_vote" /\ result = "err"
    /\ engine # NoEngine
    /\ engine.phase = "Voting"
    /\ engine.dead_players # <<>>

PhaseChanges ==
    {<<"Preparation", "Night">>, <<"Night", "DayDiscussion">>,
     <<"DayDiscussion", "Voting">>, <<"Voting", "Night">>, <<"Voting", "GameOver">>}

\* C3: a call that advances the phase (proceed_to_next_phase, or the player_vote
\* that completes a round) changes the phase only along Preparation->Night,
\* Night->DayDiscussion, DayDiscussion->Voting, Voting->Night, Voting->GameOver;
\* LastWords is never the phase; in GameOver the call returns ok and changes nothing.
C3_PhaseGraph ==
    [][/\ engine.phase # "LastWords"
       /\ ((Called("proceed_to_next_phase") \/ Called("player_vote"))
             /\ engine'.phase # engine.phase)
            => <<engine.phase, engine'.phase>> \in PhaseChanges
       /\ (Called("proceed_to_next_phase") /\ engine.phase = "GameOver")
            => result' = "ok" /\ engine' = engine
      ]_vars

\* proceed_to_next_phase was called on a game that was over.
C3_Witness ==
    /\ last_op = "proceed_to_next_phase" /\ result = "ok"
    /\ last_phase = "GameOver"
    /\ engine.phase = "GameOver"

\* The step is a call of one of the operations on a game: start, advance_phase
\* or vote (execute_night_action runs inside the last two).
GameCall ==
    Called("start_game") \/ Called("proceed_to_next_phase") \/ Called("player_vote")

\* C4: once the phase is GameOver no operation on the game changes the phase.
C4_GameOverTerminal ==
    [][(GameCall /\ engine.phase = "GameOver") => engine'.phase = "GameOver"]_vars

\* The step resolves a Voting round and the win condition holds of the roster left.
WinningResolution ==
    /\ Called("proceed_to_next_phase") \/ Called("player_vote")
    /\ engine.phase = "Voting"
    /\ engine'.phase = "GameOver"
    /\ engine'.votes = <<>>
    /\ check_game_end(engine').ended

\* C5: winner is unset until a Voting resolution finds the win condition true, and
\* once set no operation on the game changes it.
C5_WinnerSetOnce ==
    [][GameCall =>
          /\ engine.winner # None => engine'.winner = engine.winner
          /\ (engine.winner = None /\ engine'.winner # None) => WinningResolution
      ]_vars

\* The first half of C5 alone: winner is set only by a winning Voting resolution.
WinnerSetByResolution ==
    [][(GameCall /\ engine'.winner # engine.winner) => WinningResolution]_vars


\* The step resolves a Voting round: proceed_to_next_phase in the phase Voting, or
\* the player_vote that completes the round.
ResolutionStep ==
    /\ engine.phase = "Voting"
    /\ \/ Called("proceed_to_next_phase")
       \/ Called("player_vote") /\ result' = "ok" /\ engine'.phase # "Voting"

\* The engine as the resolution of the step finds it: with the vote of the
\* player_vote that completes the round registered.
TalliedRound ==
    IF last_op' = "player_vote"
    THEN vote(engine, last_call'.voter, last_call'.target).eng
    ELSE engine

\* The pending votes the resolution of the step counts.
TalliedVotes == TalliedRound.votes

\* The roster without the player id.
Without(players, id) == SelectSeq(players, LAMBDA p : p.id # id)

\* C6: a Voting resolution with a pending vote eliminates exactly one player, one
\* that has at least as many pending votes as every other target; with no pending
\* vote it eliminates nobody; the pending votes are empty afterwards. Stated of
\* every outcome of process_votes on every round a reachable Voting state can be
\* resolved with (as it is, or with one more vote registered), and of every
\* resolving step (the night round that follows in the same call, when the game
\* goes on, eliminates on its own account: entries 2.. of elim_log).
C6_Resolution ==
    /\ [](engine.phase = "Voting" =>
            \A e \in {engine} \cup {vote(engine, voter_id, target_id).eng :
                                       voter_id \in VoterIds, target_id \in TargetIds} :
                LET top == IF e.votes = <<>> THEN {} ELSE TopTargets(e.votes)
                IN  \A id \in max_by_key(vote_counts(e.votes)) :
                        LET e1 == process_votes(e, id)
                        IN  /\ e1.votes = <<>>
                            /\ IF e.votes = <<>>
                               THEN /\ e1.players = e.players
                                    /\ e1.dead_players = e.dead_players
                               ELSE /\ id \in top
                                    /\ id \in Ids(e.players)
                                    /\ e1.players = Without(e.players, id)
                                    /\ Len(e1.dead_players)
                                          = Len(e.dead_players) + 1)
    /\ [][ResolutionStep =>
            LET tallied == TalliedVotes
            IN  /\ engine'.votes = <<>>
                /\ LiveIds \ Ids(engine'.players)
                      = {elim_log'[k].id :
                            k \in {k \in DOMAIN elim_log' : elim_log'[k].alive}}
                /\ IF tallied = <<>>
                   THEN engine'.phase = "GameOver" =>
                            /\ engine'.players = engine.players
                            /\ engine'.dead_players = engine.dead_players
                   ELSE /\ elim_log' # <<>>
                        /\ elim_log'[1].alive
                        /\ \A i \in DOMAIN tallied :
                              VotesFor(tallied, tallied[i].target)
                                  <= VotesFor(tallied, elim_log'[1].id)
                        /\ engine'.phase = "GameOver" =>
                              engine'.players
                                  = Without(engine.players, elim_log'[1].id)
         ]_vars

\* proceed_to_next_phase resolved a round in which one target had the most of
\* several pending votes, and eliminated a player.
C6_Witness ==
    /\ last_op = "proceed_to_next_phase" /\ result = "ok"
    /\ last_phase = "Voting"
    /\ last_tally = "one top"
    /\ elim_log # <<>>
    /\ elim_log[1].alive
    /\ elim_log[1].id \in DeadIds

\* C7: when several targets share the maximum vote count, the resolution
\* eliminates the one of them that was voted for first: the first maximum in the
\* insertion order of the tallied votes.
C7_FirstMaxEliminated ==
    [][(ResolutionStep /\ TalliedVotes # <<>>)
          => elim_log'[1].id = FirstMaxTarget(TalliedVotes)]_vars

\* The numbers of living werewolves and of living Villager-faction players.
Wolves ==
    Cardinality({i \in DOMAIN engine.players :
                    engine.players[i].role.role_type = "Werewolf"})

Others ==
    Cardinality({i \in DOMAIN engine.players :
                    engine.players[i].role.role_type # "Werewolf"})

\* C8: the win check returns Villager when w = 0 (also when w = v = 0), Werewolf
\* when w > 0 and w >= v, no winner otherwise; (0,3) -> Villager, (2,2) -> Werewolf,
\* (1,3) -> none; check_game_end applies it to the counts of the live roster, and
\* so does the resolution that ends the game.
C8_WinCondition ==
    /\ \A w, v \in 0..MaxCount :
          LET r == check_win_condition(w, v)
          IN  /\ w = 0 => r = "Villager"
              /\ (w > 0 /\ w >= v) => r = "Werewolf"
              /\ (w > 0 /\ w < v) => r = None
    /\ check_win_condition(0, 0) = "Villager"
    /\ check_win_condition(0, 3) = "Villager"
    /\ check_win_condition(2, 2) = "Werewolf"
    /\ check_win_condition(1, 3) = None
    /\ engine # NoEngine =>
          LET g == check_game_end(engine)
          IN  /\ g.ended <=> (Wolves = 0 \/ Wolves >= Others)
              /\ g.ended => /\ g.eng.phase = "GameOver"
                            /\ g.eng.winner = IF Wolves = 0 THEN "Villager"
                                              ELSE "Werewolf"
              /\ ~g.ended => g.eng = engine
    /\ (last_op \in {"proceed_to_next_phase", "player_vote"} /\ result = "ok"
          /\ last_phase = "Voting" /\ engine.phase = "GameOver")
        => /\ Wolves = 0 \/ Wolves >= Others
           /\ engine.winner = IF Wolves = 0 THEN "Villager" ELSE "Werewolf"

\* A Voting resolution ended the game for the werewolves at equal numbers.
C8_Witness ==
    /\ last_op \in {"proceed_to_next_phase", "player_vote"} /\ result = "ok"
    /\ last_phase = "Voting"
    /\ engine.phase = "GameOver"
    /\ engine.winner = "Werewolf"
    /\ Wolves > 0
    /\ Wolves = Others

CreatedIds == {p.id : p \in created}

\* The player id is off the live roster and once, with is_alive false, among the dead.
Gone(id) ==
    /\ id \notin LiveIds
    /\ Cardinality({i \in DOMAIN engine.dead_players :
                       engine.dead_players[i].id = id}) = 1
    /\ \A i \in DOMAIN engine.dead_players :
          engine.dead_players[i].id = id => ~engine.dead_players[i].is_alive

\* C9: a player whose elimination was requested (elim_log: by the resolution or by
\* a Kill of the last call, while living or again when dead already), and every
\* player eliminated before, is absent from the live roster, once in dead_players,
\* and has is_alive false there.
C9_Eliminated ==
    engine # NoEngine =>
        /\ \A k \in DOMAIN elim_log :
              elim_log[k].id \in CreatedIds => Gone(elim_log[k].id)
        /\ \A id \in DeadIds : Gone(id)

\* One call eliminated a living player and was asked to eliminate it again.
C9_Witness ==
    /\ engine # NoEngine
    /\ \E i, j \in DOMAIN elim_log :
          /\ i < j
          /\ elim_log[i].id = elim_log[j].id
          /\ elim_log[i].alive
          /\ ~elim_log[j].alive

\* C10: the live roster and dead_players are disjoint and hold, between them,
\* exactly the players initialize_game created, each once; the living have
\* is_alive true, the dead is_alive false.
C10_NeverDeleted ==
    engine # NoEngine =>
        /\ LiveIds \cap DeadIds = {}
        /\ {engine.players[i] : i \in DOMAIN engine.players}
              \cup {[engine.dead_players[i] EXCEPT !.is_alive = TRUE]
                       : i \in DOMAIN engine.dead_players} = created
        /\ Len(engine.players) + Len(engine.dead_players) = Cardinality(created)
        /\ \A i \in DOMAIN engine.players : engine.players[i].is_alive
        /\ \A i \in DOMAIN engine.dead_players : ~engine.dead_players[i].is_alive

\* Two players have died, by a vote and by a kill, and others live.
C10_Witness ==
    /\ engine # NoEngine
    /\ Len(engine.dead_players) >= 2
    /\ engine.players # <<>>
    /\ engine.phase = "Night"
    /\ last_tally \in {"one top", "tie, first", "tie, later"}
    /\ Len(elim_log) >= 2


\* C11: the keys of players_map are exactly the ids of the live roster, and each id
\* maps to the position its player has in the live roster now.
C11_PlayersMap ==
    engine # NoEngine =>
        /\ DOMAIN engine.players_map = LiveIds
        /\ \A id \in DOMAIN engine.players_map :
              /\ engine.players_map[id] \in DOMAIN engine.players
              /\ engine.players[engine.players_map[id]].id = id

\* The first player and a later one were eliminated, so that a living player
\* stands two places before the place it was created at.
C11_Witness ==
    /\ engine # NoEngine
    /\ HumanId \in DeadIds
    /\ Len(engine.dead_players) >= 2
    /\ \E k \in 3..Len(AiIds) :
          /\ AiIds[k] \in DOMAIN engine.players_map
          /\ engine.players_map[AiIds[k]] = k - 1


\* The change of the day counter the step is to make: 1 at the start out of
\* Preparation, one more at Voting -> Night, none otherwise.
DayStep ==
    IF engine.phase = "Preparation" /\ engine'.phase = "Night"
    THEN engine'.day = 1
    ELSE IF engine.phase = "Voting" /\ engine'.phase = "Night"
    THEN engine'.day = engine.day + 1
    ELSE engine'.day = engine.day

\* C12: day is 0 from creation until the start, becomes 1 at the start, grows by
\* exactly 1 at each Voting -> Night transition and changes at no other step of an
\* operation on the game.
C12_DayCounter ==
    /\ [](engine.phase = "Preparation" => engine.day = 0)
    /\ [][GameCall => DayStep]_vars

\* C12 of every call but a start_game on a game that has started already.
DayCounterBarRestart ==
    /\ [](engine.phase = "Preparation" => engine.day = 0)
    /\ [][(GameCall /\ ~(Called("start_game") /\ engine.phase # "Preparation"))
            => DayStep]_vars


\* How many players of the live roster have the role r.
RoleCount(r) ==
    Cardinality({i \in DOMAIN engine.players : engine.players[i].role.role_type = r})

\* The table of the role distributions, by player count.
RoleTable ==
    [n \in TableCounts |->
        CASE n = 6 -> [Werewolf |-> 2, Villager |-> 2, Seer |-> 1, Witch |-> 1,
                       Hunter |-> 0, Guard |-> 0]
          [] n = 8 -> [Werewolf |-> 3, Villager |-> 3, Seer |-> 1, Witch |-> 1,
                       Hunter |-> 0, Guard |-> 0]
          [] n = 10 -> [Werewolf |-> 3, Villager |-> 4, Seer |-> 1, Witch |-> 1,
                        Hunter |-> 1, Guard |-> 0]
          [] n = 12 -> [Werewolf |-> 4, Villager |-> 4, Seer |-> 1, Witch |-> 1,
                        Hunter |-> 1, Guard |-> 1]]

\* C13: create_game with a total_players of the table leaves a live roster of
\* total_players players (distinct ids, nobody dead) whose roles, counted by kind,
\* are the table's entry for that count, whatever the deck.
C13_RoleTable ==
    (engine # NoEngine /\ last_op = "create_game") =>
        /\ Len(engine.players) \in TableCounts
        /\ Cardinality(LiveIds) = Len(engine.players)
        /\ engine.dead_players = <<>>
        /\ \A r \in RoleTypes : RoleCount(r) = RoleTable[Len(engine.players)][r]
        /\ \A i \in DOMAIN engine.players :
              /\ engine.players[i].role = create_role(engine.players[i].role.role_type)
              /\ engine.players[i].faction = engine.players[i].role.faction

\* The deck the roster was dealt from: the agents' roles in order, then the human's.
DeckOf(players) ==
    [i \in 1..Len(players) |->
        IF i < Len(players) THEN players[i + 1].role.role_type
        ELSE players[1].role.role_type]

\* A 12-player game was created from a deck the shuffle had changed: a role
\* stands between two roles of another kind, as in no list built kind by kind.
C13_Witness ==
    /\ engine # NoEngine
    /\ last_op = "create_game"
    /\ Len(engine.players) = 12
    /\ \E a, b, c \in 1..12 :
          /\ a < b /\ b < c
          /\ DeckOf(engine.players)[a] = DeckOf(engine.players)[c]
          /\ DeckOf(engine.players)[a] # DeckOf(engine.players)[b]


\* C14: create_game with total_players = 0 fails and creates no players.
C14_ZeroPlayersFails ==
    last_op = "create_game" => (result # "ok" /\ LiveIds = {} /\ created = {})

\* The history of the scenario: one Kill with a target was passed to
\* execute_night_action, in the Night of day 1, against a living Villager, and
\* no vote was cast.
OneVillagerKill ==
    /\ Len(driver.kills) = 1
    /\ driver.kills[1].alive
    /\ driver.kills[1].role = "Villager"
    /\ driver.kills[1].first_night
    /\ ~driver.voted

\* C15: in the 8-player game start_game yields Night and day 1; when one Kill
\* against a living Villager was executed in that Night and no vote was cast,
\* the state after the resolution of the Voting has the target in dead_players
\* and 7 players in the roster.
C15_KillScenario ==
    /\ []((/\ last_op = "engine.next_phase"
           /\ last_phase = "Voting"
           /\ result = "ok"
           /\ OneVillagerKill)
            => /\ driver.kills[1].target \in DeadIds
               /\ Len(engine.players) = 7)
    /\ [][(last_op' = "engine.start_game" /\ result' = "ok")
            => (engine'.phase = "Night" /\ engine'.day = 1)]_vars

C15_Witness ==
    /\ last_op = "engine.next_phase"
    /\ last_phase = "Voting"
    /\ result = "ok"
    /\ OneVillagerKill
    /\ engine.phase = "Night"
    /\ engine.day = 2
    /\ RoleCount("Werewolf") = 3
    /\ RoleCount("Villager") = 2
    /\ driver.kills[1].target \in DeadIds

\* The step is a player_vote that registered its vote and returned Ok.
VoteStep == Called("player_vote") /\ result' = "ok" /\ last_call' # NoCall

\* With the vote of the step, every living player has a pending vote.
Covered ==
    LiveIds \subseteq
        {engine.votes[i].voter : i \in DOMAIN engine.votes} \cup {last_call'.voter}

\* C16: a player_vote that returns Ok and leaves every living player with a
\* pending vote resolves the round in the same call (the votes are tallied and
\* cleared, the phase is no longer Voting); one that leaves a living player
\* without a pending vote tallies nothing and leaves the phase Voting.
C16_AutoAdvance ==
    [][VoteStep =>
        IF Covered
        THEN /\ engine'.phase # "Voting"
             /\ engine'.votes = <<>>
             /\ last_tally' # "none"
             /\ latest_vote' = NoVotes
        ELSE /\ engine'.phase = "Voting"
             /\ engine'.votes # <<>>
             /\ last_tally' = "none"]_vars

C16_Witness ==
    /\ last_op = "player_vote"
    /\ result = "ok"
    /\ last_call # NoCall
    /\ last_tally # "none"
    /\ engine.phase = "Night"
    /\ Len(engine.dead_players) >= 2
    /\ Len(engine.players) >= 2

\* The step is a call that returned Ok and moved the game into Night.
NightEntry ==
    /\ GameCall
    /\ result' = "ok"
    /\ engine.phase # "Night"
    /\ engine'.phase = "Night"

\* The agents with the rule-based Kill that are alive after the step.
LivingAiWolves ==
    {i \in DOMAIN engine'.players :
        engine'.players[i].is_ai /\ engine'.players[i].role.role_type = "Werewolf"}

\* The eliminate_player calls of the step that came from night actions (the
\* resolution of a Voting round makes at most one call before them).
NightKills ==
    Len(elim_log') - (IF last_tally' \in {"none", "no votes"} THEN 0 ELSE 1)

\* C17: every call that moves the game into Night runs one round of night
\* actions: without a text-generation service each living agent werewolf that has
\* another living player to aim at has its Kill applied in that call.
C17_NightRound ==
    [][(NightEntry /\ ~llm_manager /\ Len(engine'.players) >= 2)
        => NightKills >= Cardinality(LivingAiWolves)]_vars

\* The entries into Night other than by start_game do run the round.
NightRoundBarStart ==
    [][(NightEntry /\ last_op' # "start_game" /\ ~llm_manager
            /\ Len(engine'.players) >= 2)
        => NightKills >= Cardinality(LivingAiWolves)]_vars

\* The step is a proceed_to_next_phase that came to execute_night_actions.
RoundStep == Called("proceed_to_next_phase") /\ night_round' # NoRound

\* The snapshot ai_players of the round of the step (NightSpec casts no votes, so
\* the roster at the entry into Night is the roster before the step).
EntryAgents ==
    SelectSeq(engine.players, LAMBDA p : p.is_alive /\ p.is_ai /\ p.role.has_night_action)

\* C18: a round of night actions in which the text generation failed for an
\* agent still comes to every agent of its snapshot, in order, and the
\* proceed_to_next_phase that ran it returns Ok with the game in Night.
C18_FailureDoesNotAbort ==
    [][(RoundStep /\ \E i \in DOMAIN night_round' : night_round'[i].reply = "failed")
        => /\ result' = "ok"
           /\ engine'.phase = "Night"
           /\ Len(night_round') = Len(EntryAgents)
           /\ \A i \in DOMAIN night_round' : night_round'[i].player = EntryAgents[i].id]_vars

C18_Witness ==
    /\ last_op = "proceed_to_next_phase"
    /\ result = "ok"
    /\ night_round # NoRound
    /\ Len(night_round) = 2
    /\ night_round[1].reply = "failed"
    /\ night_round[2].reply = "json"
    /\ night_round[2].action.action = "Kill"
    /\ night_round[2].action.target \in DeadIds

\* C19: with a text-generation service, an agent werewolf whose call failed or
\* whose reply was no JSON object with an action has a rule-based Kill applied
\* in the round (another player being alive to aim at).
C19_HeuristicFallback ==
    [][(RoundStep /\ llm_manager /\ Len(engine'.players) >= 2)
        => \A i \in DOMAIN night_round' :
              (/\ night_round'[i].reply \in {"failed", "not json"}
               /\ RoleOf(engine, night_round'[i].player) = "Werewolf")
                => /\ night_round'[i].action.action = "Kill"
                   /\ night_round'[i].action.target \in LiveIds]_vars

\* The generate_single calls the call has made.
Attempts == llm_call.log

\* C20: the attempts of one call go through the endpoints in the order primary,
\* first fallback, second fallback, ...; an endpoint is attempted only when every
\* earlier one has failed max_attempts times; no attempt follows a successful
\* one; and a call ends with Ok exactly when an attempt succeeded, returning the
\* text of that attempt.
C20_EndpointOrder ==
    /\ \A i \in DOMAIN Attempts :
          /\ i = 1 => Attempts[i].endpoint = 0
          /\ i > 1 => Attempts[i].endpoint \in
                          {Attempts[i - 1].endpoint, Attempts[i - 1].endpoint + 1}
          /\ \A e \in 0..(Attempts[i].endpoint - 1) :
                Cardinality({j \in 1..(i - 1) :
                                Attempts[j].endpoint = e /\ ~Attempts[j].ok}) = max_attempts
          /\ i < Len(Attempts) => ~Attempts[i].ok
    /\ llm_call.status = "ok" =>
          /\ Attempts[Len(Attempts)].ok
          /\ llm_call.reply = Attempts[Len(Attempts)].text
    /\ llm_call.status = "err" =>
          /\ \A i \in DOMAIN Attempts : ~Attempts[i].ok
          /\ Attempts[Len(Attempts)].endpoint = llm_call.fallbacks
    /\ llm_call.status = "running" => \A i \in DOMAIN Attempts : ~Attempts[i].ok

C20_Witness ==
    /\ llm_call.status = "ok"
    /\ llm_call.fallbacks = 2
    /\ Attempts[Len(Attempts)].endpoint = 2
    /\ Attempts[Len(Attempts)].attempt = 2
    /\ llm_call.reply = "text b"

\* The number of generate_single calls the call has made on `endpoint`.
AttemptsOn(endpoint) ==
    Cardinality({i \in DOMAIN Attempts : Attempts[i].endpoint = endpoint})

\* C21: in one call the primary endpoint is attempted at most max_attempts times
\* and each fallback endpoint at most once.
C21_FallbackOnce ==
    /\ AttemptsOn(0) <= max_attempts
    /\ \A endpoint \in 1..llm_call.fallbacks : AttemptsOn(endpoint) <= 1

\* Every endpoint, the fallbacks too, is attempted at most max_attempts times.
EveryEndpointRetried ==
    \A endpoint \in 0..llm_call.fallbacks : AttemptsOn(endpoint) <= max_attempts

\* The replies of a text-generation call that was made.
CallReplies == {"failed", "not json", "json"}

\* C22: in a round of night actions every text-generation call is issued before
\* any action of the round is applied to the GameState.
C22_JoinedBeforeApplied ==
    \A i \in DOMAIN night_round :
        night_round[i].reply \in CallReplies => night_round[i].applied = 0

\* The players the Kill actions of the entries before entry j of the round
\* eliminated.
KilledBefore(j) ==
    {night_round[i].action.target :
        i \in {k \in 1..(j - 1) : night_round[k].action.action = "Kill"}} \ {None}

\* C30: the rule-based action of an agent is generated after the actions of the
\* agents before it in the round were applied, and its target is no player one
\* of those actions eliminated.
C30_LaterSeesEarlier ==
    \A j \in DOMAIN night_round :
        night_round[j].reply = "rule" =>
            /\ night_round[j].applied = j - 1
                    - Cardinality({i \in 1..(j - 1) : night_round[i].action = NoAction})
            /\ night_round[j].action.target \notin KilledBefore(j)

C30_Witness ==
    /\ Len(night_round) = 2
    /\ night_round[1].reply = "rule"
    /\ night_round[1].action.action = "Kill"
    /\ night_round[2].action.action = "Kill"
    /\ night_round[2].applied = 1
    /\ night_round[1].action.target = night_round[2].player
    /\ {night_round[1].action.target, night_round[2].action.target} \subseteq DeadIds

\* The pending votes of voter_id.
PendingOf(voter_id) ==
    {i \in DOMAIN engine.votes : engine.votes[i].voter = voter_id}

\* C23: the player_vote commands run one at a time (each holds the write lock of
\* the GameManager for the whole call), in any order.  In a Voting round a voter
\* has at most one pending vote, the last one registered for that voter; the
\* command that registers its vote resolves the round exactly when that vote is
\* the last one missing of a living player, and the round is then over (no vote
\* pending, the phase no longer Voting); a command that finds the game outside
\* the phase Voting is rejected and changes nothing.
C23_SerialVotes ==
    /\ [](engine # NoEngine =>
            \A voter_id \in VoterIds :
                /\ Cardinality(PendingOf(voter_id)) <= 1
                /\ \A i \in PendingOf(voter_id) :
                      engine.votes[i].target = latest_vote[voter_id])
    /\ [][/\ VoteStep =>
                /\ last_phase' = "Voting"
                /\ (last_tally' # "none") <=> Covered
                /\ last_tally' # "none" =>
                      (engine'.votes = <<>> /\ engine'.phase # "Voting")
          /\ (Called("player_vote") /\ engine # NoEngine /\ engine.phase # "Voting")
                => /\ result' = "err"
                   /\ engine' = engine
                   /\ latest_vote' = latest_vote
         ]_vars

\* A player_vote was rejected in the Night that followed the resolution of a
\* Voting round with votes.
C23_Witness ==
    /\ last_op = "player_vote"
    /\ result = "err"
    /\ last_phase = "Night"
    /\ last_tally \in {"one top", "tie, first", "tie, later"}
    /\ engine.votes = <<>>
    /\ engine.day = 2

\* The nodes of the belief model.
Nodes == agent.nodes

\* C24: every node's suspicion, trust and faction probability are within
\* [0.0, 1.0], whatever evidence add_evidence was given.
C24_ScoresInRange ==
    \A id \in DOMAIN Nodes :
        /\ Nodes[id].suspicion_score \in 0..Scale
        /\ Nodes[id].trust_score \in 0..Scale
        /\ Nodes[id].faction_probability \in 0..Scale

\* A node that two pieces of evidence drove to both ends of the range: the
\* suspicion to 1.0 and the trust to 0.0.
C24_Witness ==
    \E id \in DOMAIN Nodes :
        /\ Len(Nodes[id].evidence) = 2
        /\ Nodes[id].evidence[1].weight = 100
        /\ Nodes[id].evidence[2].weight = -10
        /\ Nodes[id].suspicion_score = Scale
        /\ Nodes[id].trust_score = 0

\* The step is the call `op` on the belief model.
BeliefStep(op) == decision'.op = op /\ agent # NoAgent

\* The step changed no node but that of player_id, on which it pushed one
\* Evidence; if player_id has no node it changed nothing.
OnlyNodeOf(player_id) ==
    /\ agent'.player_id = agent.player_id
    /\ DOMAIN Nodes' = DOMAIN Nodes
    /\ \A id \in DOMAIN Nodes \ {player_id} : Nodes'[id] = Nodes[id]
    /\ player_id \in DOMAIN Nodes =>
          /\ Len(Nodes'[player_id].evidence) = Len(Nodes[player_id].evidence) + 1
          /\ SubSeq(Nodes'[player_id].evidence, 1, Len(Nodes[player_id].evidence))
                = Nodes[player_id].evidence

\* C29: add_evidence(p, e) changes the node of p only, whose evidence grows by
\* one entry; analyze_vote(voter, target) pushes one VotingPattern Evidence on
\* the node of the voter and changes no other node, that of the target
\* included; a call for a player with no node changes nothing.
C29_PerPlayerUpdate ==
    [][/\ BeliefStep("add_evidence") => OnlyNodeOf(decision'.player_id)
       /\ BeliefStep("analyze_vote") =>
            /\ OnlyNodeOf(decision'.player_id)
            /\ decision'.player_id \in DOMAIN Nodes =>
                  /\ Nodes'[decision'.player_id].evidence
                        = Append(Nodes[decision'.player_id].evidence, VoteEvidence)
                  /\ Nodes'[decision'.player_id].faction_probability
                        >= Nodes[decision'.player_id].faction_probability
      ]_vars

\* analyze_vote was called for a voter and a target that both have a node, after
\* evidence was added on the node of the target.
C29_Witness ==
    /\ decision.op = "analyze_vote"
    /\ decision.player_id # decision.target_id
    /\ {decision.player_id, decision.target_id} \subseteq DOMAIN Nodes
    /\ Len(Nodes[decision.player_id].evidence) = 1
    /\ Len(Nodes[decision.target_id].evidence) = 1
    /\ Nodes[decision.target_id].evidence[1].evidence_type = "DefensiveBehavior"
    /\ Nodes[decision.target_id].suspicion_score > Scale \div 2

\* The last step was decide_vote_target under the voting strategy `strategy`.
Voted(strategy) == decision.op = "decide_vote_target" /\ decision.strategy = strategy

\* C25: under the Protective voting strategy the vote target is the most
\* trusted player only if that player is the most suspicious one as well.
C25_ProtectiveSparesTrusted ==
    (Voted("Protective") /\ decision.target # None /\ decision.target = decision.trusted)
        => decision.trusted = decision.suspicious

\* A Protective vote for the most suspicious player, while another, living
\* player that evidence made more trusted than the rest is the most trusted.
C25_Witness ==
    /\ Voted("Protective")
    /\ decision.trusted # decision.suspicious
    /\ decision.target = decision.suspicious
    /\ decision.trusted \in LiveIds
    /\ Nodes[decision.trusted].trust_score > Scale \div 2
    /\ Nodes[decision.suspicious].suspicion_score > Scale \div 2

\* The living players of the Villager faction.
LivingVillagers ==
    {engine.players[i].id :
        i \in {k \in DOMAIN engine.players :
                 engine.players[k].is_alive /\ engine.players[k].faction = "Villager"}}

\* The last step was the night decision of the agent, a werewolf of the game,
\* as a Werewolf, and it returned a Kill.
WerewolfKill ==
    /\ decision.op = "decide_night_action"
    /\ decision.my_role = "Werewolf"
    /\ RoleOf(engine, agent.player_id) = "Werewolf"
    /\ decision.action = "Kill"

\* C26: the Kill target the Strategy Selector chooses for a werewolf agent,
\* under every strategy type, is a living player of the Villager faction.
C26_KillTargetsVillagers ==
    WerewolfKill => decision.target \in LivingVillagers

\* Under the strategy types other than Aggressive it is.
KillTargetsVillagersBarAggressive ==
    (WerewolfKill /\ decision.strategy # "Aggressive")
        => decision.target \in LivingVillagers

\* The same of the rule-based Kill of the orchestrator: its target is no
\* werewolf (it is not so: generate_simple_night_action filters on is_alive and
\* on the id of the agent alone).
RuleBasedKillsVillagers ==
    \A i \in DOMAIN night_round :
        (night_round[i].reply = "rule" /\ night_round[i].action.action = "Kill")
            => RoleOf(engine, night_round[i].action.target) # "Werewolf"

\* The last step was the night decision of a Seer or a Guard, and it returned
\* an action with a target.
CheckOrProtect ==
    /\ decision.op = "decide_night_action"
    /\ \/ decision.my_role = "Seer" /\ decision.action = "Check"
       \/ decision.my_role = "Guard" /\ decision.action = "Protect"

\* C27: the target of a Seer's Check and of a Guard's Protect is a living
\* player of the game state the decision was made on.
C27_TargetAlive ==
    CheckOrProtect => decision.target \in LiveIds

\* With no player eliminated since the belief model was initialized it is.
TargetAliveWhileAllNodesLive ==
    (CheckOrProtect /\ DOMAIN Nodes \subseteq LiveIds) => decision.target \in LiveIds

\* The living players other than the agent.
LivingOthers == LiveIds \ {agent.player_id}

\* The last step was decide_vote_target under FollowMajority or Random.
RandomVote == Voted("FollowMajority") \/ Voted("Random")

\* C28: under FollowMajority and Random the vote target is a living player
\* other than the agent, and there is none only if no other player is alive.
C28_RandomVoteTarget ==
    RandomVote =>
        IF decision.target = None THEN LivingOthers = {}
        ELSE decision.target \in LivingOthers

\* The target is a living player, the agent or another, and there is none only
\* if no player is alive.
RandomVoteTargetAlive ==
    RandomVote =>
        IF decision.target = None THEN LiveIds = {}
        ELSE decision.target \in LiveIds

\* The sample at index i (from 0) of the data of the last call is silent.
Silent(i) == abs(audio.silence.data[i + 1]) < audio.silence.threshold

\* The maximal runs of silent samples of that data, as half-open index pairs.
MaximalRuns ==
    LET n == Len(audio.silence.data)
    IN  {<<a, b>> \in (0..n) \X (0..n) :
            /\ a < b
            /\ \A i \in a..(b - 1) : Silent(i)
            /\ a = 0 \/ ~Silent(a - 1)
            /\ b = n \/ ~Silent(b)}

\* C31: detect_silence returns, in increasing order and without overlap, exactly
\* the maximal runs of samples with |sample| < threshold that are at least
\* min_duration long, as half-open pairs (start, end), the run that reaches the
\* end of the data included.
C31_SilenceSegments ==
    LET segments == audio.silence.segments
    IN  /\ {segments[k] : k \in DOMAIN segments}
              = {r \in MaximalRuns : r[2] - r[1] >= audio.silence.min_duration}
        /\ \A k \in DOMAIN segments :
              k < Len(segments) => segments[k][2] <= segments[k + 1][1]

\* The data of the test, with the two segments it expects, the second reaching
\* the end; and a silent run below min_duration that is left out.
C31_Witness ==
    /\ audio.silence.data = <<0, -2, 500, 0>>
    /\ audio.silence.threshold = 10
    /\ audio.silence.min_duration = 1
    /\ audio.silence.segments = <<(<<0, 2>>), (<<3, 4>>)>>

\* The call has returned.
Returned == llm_call.status \in {"ok", "err"}

C33_DeceptionInRange ==
    /\ current_strategy.deception_level >= 0
    /\ current_strategy.deception_level <= 10

\* The calls made up to day 3 leave the deception_level as it was, and a call
\* after day 3 raises it by 0.1 whatever it was.
DeceptionRaisedAfterDay3 ==
    [][current_strategy'.calls = current_strategy.calls + 1 =>
            current_strategy'.deception_level =
                IF engine.day > 3 THEN current_strategy.deception_level + 1
                ELSE current_strategy.deception_level]_vars

\* The seconds since the countdown was last started.
Elapsed == timer.now - timer.started

\* C34: update_timer returns true only once at least the phase's configured
\* duration has elapsed since the timer was started, however often it is polled
\* in between; and time_remaining never underflows.
C34_ExpiryAfterDuration ==
    /\ timer.expired => Elapsed >= timer.duration
    /\ timer.time_remaining # <<>> => timer.time_remaining[1] >= 0

\* A countdown that is polled once expires no sooner than its duration; and
\* time_remaining, while set, is at least 1 and at most the duration.
ExpiryOfFirstPoll ==
    /\ timer.expired /\ timer.polls = 1 => Elapsed >= timer.duration
    /\ timer.time_remaining # <<>> =>
          /\ timer.time_remaining[1] >= 1
          /\ timer.time_remaining[1] <= timer.duration

\* The task's last call has returned.
ReturnedTo(t) == audio.pc[t] = "idle" /\ audio.outcome[t] # "none"

\* C40: a play_audio request that arrives while another playback is in progress
\* is skipped, without playing and without waiting for the running playback to
\* finish; and is_playing() called during a playback reports true.
C40_BusyRequestSkipped ==
    /\ \A t \in PlayTasks :
          audio.arrived_playing[t] =>
              /\ audio.pc[t] # "sleeping"
              /\ ReturnedTo(t) => audio.outcome[t] = "skipped"
    /\ \A t \in QueryTasks :
          audio.arrived_playing[t] /\ ReturnedTo(t) => audio.outcome[t] = "true"

\* What the code does instead: the flag is set only while the Mutex is held, so
\* no call ever finds it set; a play_audio request that arrives during a playback
\* waits for the Mutex and then plays, and is_playing() returns false.
BusyRequestWaitsAndPlays ==
    /\ audio.is_playing => audio.lock \in PlayTasks
    /\ \A t \in PlayTasks : ReturnedTo(t) => audio.outcome[t] = "played"
    /\ \A t \in QueryTasks : ReturnedTo(t) => audio.outcome[t] = "false"
    /\ \A t \in PlayTasks \cup QueryTasks :
          Playing /\ audio.pc[t] = "locking" => audio.lock # None

\* The call of the step returned Ok with the game in Night, having run a night
\* round that executed a Kill (eliminations beyond the one of the Voting round
\* the call resolved).
NightKillStep ==
    /\ GameCall
    /\ result' = "ok"
    /\ engine'.phase = "Night"
    /\ Len(elim_log') > (IF last_tally' \in {"none", "no votes"} THEN 0 ELSE 1)

\* proceed_to_next_phase found the game in `from` and returned Ok.
ProceedFrom(from) ==
    Called("proceed_to_next_phase") /\ result' = "ok" /\ engine.phase = from

\* The step sets the winner or ends the game.
GameEnds ==
    /\ GameCall
    /\ \/ engine'.winner # engine.winner
       \/ engine.phase # "GameOver" /\ engine'.phase = "GameOver"

\* C35: the win condition is evaluated only when a Voting round is resolved:
\* after a night Kill that leaves no living werewolf, or as many living
\* werewolves as Villager-faction players, the game is in Night with winner
\* unset, proceeds to DayDiscussion and to Voting with the winner as it was, and
\* a winner is set and GameOver entered only by a step that resolves a Voting
\* round.
C35_WinCheckAtResolution ==
    [][/\ (NightKillStep /\ check_game_end(engine').ended) => engine'.winner = None
       /\ ProceedFrom("Night") =>
             engine'.phase = "DayDiscussion" /\ engine'.winner = engine.winner
       /\ ProceedFrom("DayDiscussion") =>
             engine'.phase = "Voting" /\ engine'.winner = engine.winner
       /\ GameEnds => engine.phase = "Voting"]_vars

\* C35 with the winner left as it was by the call that ran the night round: unset
\* unless a start_game restarted a game that was over.
WinCheckOnlyAtResolution ==
    [][/\ (NightKillStep /\ check_game_end(engine').ended)
             => engine'.winner = engine.winner
       /\ ProceedFrom("Night") =>
             engine'.phase = "DayDiscussion" /\ engine'.winner = engine.winner
       /\ ProceedFrom("DayDiscussion") =>
             engine'.phase = "Voting" /\ engine'.winner = engine.winner
       /\ GameEnds => engine.phase = "Voting"]_vars

\* The Kill actions with a target that the round executed.
RoundKills(round) ==
    {i \in DOMAIN round : round[i].action.action = "Kill" /\ round[i].action.target # None}

\* C36: the agents of a night round are those of the snapshot taken when the
\* round starts, each acting once and in order, also one that an earlier Kill of
\* the round has eliminated: the action it returns is applied like any other, so
\* every Kill target of the round is off the live roster afterwards and the
\* round makes one eliminate_player call per Kill.
C36_SnapshotActsOnce ==
    [][(RoundStep /\ result' = "ok") =>
          /\ Len(night_round') = Len(EntryAgents)
          /\ \A i \in DOMAIN night_round' : night_round'[i].player = EntryAgents[i].id
          /\ \A i \in RoundKills(night_round') :
                night_round'[i].action.target \notin Ids(engine'.players)
          /\ Len(elim_log') = Cardinality(RoundKills(night_round'))
          /\ \A i \in DOMAIN night_round' :
                night_round'[i].applied
                    = Cardinality({k \in 1..(i - 1) : night_round'[k].action # NoAction})
      ]_vars

\* Two agent werewolves: the first kills the second, the second still acts and
\* kills a third player, so the round eliminates two players.
C36_Witness ==
    /\ last_op = "proceed_to_next_phase"
    /\ result = "ok"
    /\ Len(night_round) = 2
    /\ night_round[1].action = [action |-> "Kill", target |-> night_round[2].player]
    /\ night_round[2].action.action = "Kill"
    /\ night_round[2].action.target \notin {None, night_round[2].player}
    /\ Len(elim_log) = 2
    /\ elim_log[1].alive /\ elim_log[2].alive
    /\ Len(engine.dead_players) = 2
    /\ RoleOf(engine, night_round[1].player) = "Werewolf"

\* The NightActionType the action key of a reply names.
NamedAction(key) ==
    CASE key = "kill" -> "Kill"
      [] key = "check" -> "Check"
      [] key = "heal" -> "Heal"
      [] key = "protect" -> "Protect"
      [] key = "poison" -> "Poison"
      [] OTHER -> None

\* C37: with a text-generation service the action executed for an agent is the
\* one of kill/check/heal/protect/poison that the reply's action key names, its
\* target the reply's target as it is, whatever the agent's role and whether or
\* not the target is on the live roster; a Kill with a target eliminates that
\* target if it is on the roster, whatever the agent's role.
C37_ReplyAppliedAsIs ==
    [][night_step'.player # night_step.player \/ night_step'.agents # night_step.agents
          => /\ night_step'.response.status = "json"
                    /\ NamedAction(night_step'.response.action) # None
                => night_step'.action
                      = [action |-> NamedAction(night_step'.response.action),
                         target |-> night_step'.response.target]
             /\ night_step'.action.action = "Kill"
                    /\ night_step'.action.target \in Ids(engine.players)
                => /\ night_step'.action.target \notin Ids(engine'.players)
                   /\ night_step'.action.target \in Ids(engine'.dead_players)]_vars

\* The Seer's reply names kill and a living player: the player is eliminated.
C37_Witness ==
    /\ night_step.player # None
    /\ RoleOf(engine, night_step.player) = "Seer"
    /\ night_step.response.action = "kill"
    /\ night_step.action.action = "Kill"
    /\ night_step.action.target = HumanId
    /\ elim_log[Len(elim_log)] = [id |-> HumanId, alive |-> TRUE]
    /\ HumanId \in DeadIds

\* The step resolves a Voting round that has a vote to tally.
VotedResolution ==
    /\ ResolutionStep
    /\ result' = "ok"
    /\ Called("player_vote") \/ engine.votes # <<>>

\* C38: under any sequence of create_game, start_game, player_vote and
\* proceed_to_next_phase, the voter and the target of every pending vote are on
\* the live roster; a call that ran a night round with a Kill leaves no vote
\* pending; and the resolution of a Voting round with a vote pending eliminates a
\* player who was on the live roster.
C38_PendingVotesLive ==
    /\ [](engine # NoEngine =>
            \A i \in DOMAIN engine.votes :
                /\ engine.votes[i].voter \in LiveIds
                /\ engine.votes[i].target \in LiveIds)
    /\ [][/\ NightKillStep => engine'.votes = <<>>
          /\ VotedResolution =>
                /\ elim_log' # <<>>
                /\ elim_log'[1].alive
                /\ elim_log'[1].id \in Ids(engine.players)
                /\ elim_log'[1].id \notin Ids(engine'.players)
                /\ elim_log'[1].id \in Ids(engine'.dead_players)]_vars

\* A Voting round with pending votes was resolved: the player voted out was on
\* the live roster, the votes were cleared, and the Kill of the night round
\* that followed eliminated a second player.
C38_Witness ==
    /\ last_op = "proceed_to_next_phase" /\ result = "ok"
    /\ last_phase = "Voting"
    /\ last_tally # "no votes"
    /\ engine.phase = "Night"
    /\ engine.votes = <<>>
    /\ Len(elim_log) = 2
    /\ elim_log[1].alive /\ elim_log[2].alive
    /\ {elim_log[1].id, elim_log[2].id} \subseteq DeadIds

\* The game is started and not over.
Running == engine.phase \in {"Night", "DayDiscussion", "Voting"}

\* C39: a started game whose phases keep being advanced, every Voting round
\* resolved with a vote pending, reaches GameOver with a winner set; the Voting
\* round of day d is the d-th to be resolved, and a game that is not over is in
\* a day no later than total_players, so it takes at most total_players
\* resolutions.
C39_GameEnds ==
    /\ [](Running => engine.day <= Cardinality(created))
    /\ [](engine.phase = "GameOver" => engine.winner # None)
    /\ (Running ~> (engine.phase = "GameOver" /\ engine.winner # None))

\* The cap MaxLateDay of the day counter is not reached: no step of a game is
\* left out for it.
DayBelowCap == engine.day < MaxLateDay

\* The 5-player game over at the Voting resolution of day 3, with three players
\* voted out.
C39_Witness ==
    /\ engine.phase = "GameOver"
    /\ engine.winner # None
    /\ engine.day = 3
    /\ Cardinality(created) = 5
    /\ last_op = "proceed_to_next_phase"
    /\ last_phase = "Voting"
    /\ Len(engine.dead_players) = 3

====
